---- MODULE Spec2Model ----
(***************************************************************************)
(* Model of the tile acquisition and compositing engine of pyearthviz:     *)
(*   src/pyearthviz/map/base_tile_server.py   (BaseTileServer)            *)
(*   src/pyearthviz/map/raster_map_servers.py (RasterTileServer)          *)
(* A calling script either calls a class or static method, or constructs   *)
(* a client and calls one of its methods.  Every operation is one action;  *)
(* its result (return value or raised exception), the warnings it emitted  *)
(* and the HTTP requests it issued are recorded.                           *)
(***************************************************************************)
EXTENDS Integers, Sequences, FiniteSets, TLC

VARIABLES
  registry,   \* RasterTileServer._PROVIDERS (class attribute)
  environ,    \* os.environ.get("STADIA_API_KEY"): None or a string
  client,     \* the live client object (provider, _config, tile_size, api_key)
  source,     \* the tile source get_cartopy_source returned, with what it closes over
  last,       \* the last call: operation, arguments, outcome
  warns,      \* warnings.warn calls of the last call, in order
  http,       \* requests.get calls of the last call, in order (URL and tile)
  pc          \* the calling script: "start", "ready" (client built),
              \* "adapted" (tile source built), "done"

vars == <<registry, environ, client, source, last, warns, http, pc>>

\* Python's None.
None == "None"

\* Python truthiness of an optional string (None and "" are falsy).
Truthy(v) == v # None /\ v # ""

Max(a, b) == IF a >= b THEN a ELSE b
Min(a, b) == IF a <= b THEN a ELSE b

RECURSIVE Pow2(_)
Pow2(n) == IF n <= 0 THEN 1 ELSE 2 * Pow2(n - 1)

(***************************************************************************)
(* The provider registry.  A URL template is the sequence of its literal   *)
(* pieces and placeholders; the copyright sign is written (c).             *)
(***************************************************************************)
PROVIDERS ==
     ("Stadia.StamenTerrain" :> [
       url_template |-> <<"https://tiles.stadiamaps.com/tiles/stamen_terrain/", "{z}", "/", "{x}", "/", "{y}", "@2x.png?api_key=", "{api_key}">>,
       tile_size |-> 512,
       requires_api_key |-> TRUE,
       special_handling |-> None,
       description |-> "Stadia Maps terrain tiles (formerly Stamen)",
       min_zoom |-> 0,
       max_zoom |-> 18,
       attribution |-> "(c) Stadia Maps, (c) Stamen Design, (c) OpenMapTiles, (c) OpenStreetMap contributors",
       license_url |-> "https://stadiamaps.com/terms-of-service/",
       data_source |-> "OpenStreetMap"])
  @@ ("Stadia.AlidadeSmooth" :> [
       url_template |-> <<"https://tiles.stadiamaps.com/tiles/alidade_smooth/", "{z}", "/", "{x}", "/", "{y}", "@2x.png?api_key=", "{api_key}">>,
       tile_size |-> 512,
       requires_api_key |-> TRUE,
       special_handling |-> None,
       description |-> "Stadia Maps smooth basemap",
       min_zoom |-> 0,
       max_zoom |-> 20,
       attribution |-> "(c) Stadia Maps, (c) OpenMapTiles, (c) OpenStreetMap contributors",
       license_url |-> "https://stadiamaps.com/terms-of-service/",
       data_source |-> "OpenStreetMap"])
  @@ ("Esri.Terrain" :> [
       url_template |-> <<"https://server.arcgisonline.com/ArcGIS/rest/services/World_Terrain_Base/MapServer/tile/", "{z}", "/", "{y}", "/", "{x}">>,
       tile_size |-> 256,
       requires_api_key |-> FALSE,
       special_handling |-> None,
       description |-> "Esri World Terrain Base",
       min_zoom |-> 0,
       max_zoom |-> 13,
       attribution |-> "Source: Esri, Earthstar Geographics",
       license_url |-> "https://www.esri.com/en-us/legal/terms/full-master-agreement",
       data_source |-> "Esri"])
  @@ ("Esri.Relief" :> [
       url_template |-> <<"https://server.arcgisonline.com/ArcGIS/rest/services/World_Shaded_Relief/MapServer/tile/", "{z}", "/", "{y}", "/", "{x}", ".jpg">>,
       tile_size |-> 256,
       requires_api_key |-> FALSE,
       special_handling |-> None,
       description |-> "Esri World Shaded Relief",
       min_zoom |-> 0,
       max_zoom |-> 13,
       attribution |-> "Source: Esri",
       license_url |-> "https://www.esri.com/en-us/legal/terms/full-master-agreement",
       data_source |-> "Esri"])
  @@ ("Esri.Hydro" :> [
       url_template |-> <<"https://tiles.arcgis.com/tiles/P3ePLMYs2RVChkJx/arcgis/rest/services/Esri_Hydro_Reference_Overlay/MapServer/tile/", "{z}", "/", "{y}", "/", "{x}">>,
       tile_size |-> 256,
       requires_api_key |-> FALSE,
       special_handling |-> "make_black_transparent",
       description |-> "Esri Hydro Reference Overlay",
       min_zoom |-> 0,
       max_zoom |-> 19,
       attribution |-> "Source: Esri",
       license_url |-> "https://www.esri.com/en-us/legal/terms/full-master-agreement",
       data_source |-> "Esri"])
  @@ ("Esri.WorldImagery" :> [
       url_template |-> <<"https://server.arcgisonline.com/ArcGIS/rest/services/World_Imagery/MapServer/tile/", "{z}", "/", "{y}", "/", "{x}">>,
       tile_size |-> 256,
       requires_api_key |-> FALSE,
       special_handling |-> None,
       description |-> "Esri World Imagery (satellite)",
       min_zoom |-> 0,
       max_zoom |-> 19,
       attribution |-> "Source: Esri, Maxar, Earthstar Geographics, and the GIS User Community",
       license_url |-> "https://www.esri.com/en-us/legal/terms/full-master-agreement",
       data_source |-> "Esri/Maxar"])
  @@ ("Esri.WorldTopo" :> [
       url_template |-> <<"https://server.arcgisonline.com/ArcGIS/rest/services/World_Topo_Map/MapServer/tile/", "{z}", "/", "{y}", "/", "{x}">>,
       tile_size |-> 256,
       requires_api_key |-> FALSE,
       special_handling |-> None,
       description |-> "Esri World Topographic Map",
       min_zoom |-> 0,
       max_zoom |-> 19,
       attribution |-> "Source: Esri, HERE, Garmin, Intermap, increment P Corp., GEBCO, USGS, FAO, NPS, NRCAN, GeoBase, IGN, Kadaster NL, Ordnance Survey, Esri Japan, METI, Esri China (Hong Kong), (c) OpenStreetMap contributors, GIS User Community",
       license_url |-> "https://www.esri.com/en-us/legal/terms/full-master-agreement",
       data_source |-> "Esri"])
  @@ ("Esri.NatGeo" :> [
       url_template |-> <<"https://server.arcgisonline.com/ArcGIS/rest/services/NatGeo_World_Map/MapServer/tile/", "{z}", "/", "{y}", "/", "{x}">>,
       tile_size |-> 256,
       requires_api_key |-> FALSE,
       special_handling |-> None,
       description |-> "Esri National Geographic World Map",
       min_zoom |-> 0,
       max_zoom |-> 16,
       attribution |-> "Source: National Geographic, Esri, Garmin, HERE, UNEP-WCMC, USGS, NASA, ESA, METI, NRCAN, GEBCO, NOAA, increment P Corp.",
       license_url |-> "https://www.esri.com/en-us/legal/terms/full-master-agreement",
       data_source |-> "National Geographic/Esri"])
  @@ ("Esri.WorldStreet" :> [
       url_template |-> <<"https://server.arcgisonline.com/ArcGIS/rest/services/World_Street_Map/MapServer/tile/", "{z}", "/", "{y}", "/", "{x}">>,
       tile_size |-> 256,
       requires_api_key |-> FALSE,
       special_handling |-> None,
       description |-> "Esri World Street Map",
       min_zoom |-> 0,
       max_zoom |-> 19,
       attribution |-> "Source: Esri, HERE, Garmin, USGS, Intermap, INCREMENT P, NRCan, Esri Japan, METI, Esri China (Hong Kong), Esri Korea, Esri (Thailand), NGCC, (c) OpenStreetMap contributors, GIS User Community",
       license_url |-> "https://www.esri.com/en-us/legal/terms/full-master-agreement",
       data_source |-> "Esri"])
  @@ ("Esri.GrayCanvasBase" :> [
       url_template |-> <<"https://server.arcgisonline.com/ArcGIS/rest/services/Canvas/World_Gray_Canvas/MapServer/tile/", "{z}", "/", "{y}", "/", "{x}">>,
       tile_size |-> 256,
       requires_api_key |-> FALSE,
       special_handling |-> None,
       description |-> "Esri World Gray Canvas Base",
       min_zoom |-> 0,
       max_zoom |-> 16,
       attribution |-> "Source: Esri, HERE, Garmin, (c) OpenStreetMap contributors, GIS User Community",
       license_url |-> "https://www.esri.com/en-us/legal/terms/full-master-agreement",
       data_source |-> "Esri"])
  @@ ("Esri.GrayCanvasLabels" :> [
       url_template |-> <<"https://server.arcgisonline.com/ArcGIS/rest/services/Canvas/World_Gray_Canvas_Reference/MapServer/tile/", "{z}", "/", "{y}", "/", "{x}">>,
       tile_size |-> 256,
       requires_api_key |-> FALSE,
       special_handling |-> None,
       description |-> "Esri World Gray Canvas Labels",
       min_zoom |-> 0,
       max_zoom |-> 16,
       attribution |-> "Source: Esri, HERE, Garmin, (c) OpenStreetMap contributors, GIS User Community",
       license_url |-> "https://www.esri.com/en-us/legal/terms/full-master-agreement",
       data_source |-> "Esri"])
  @@ ("Esri.WorldOceanBase" :> [
       url_template |-> <<"https://server.arcgisonline.com/ArcGIS/rest/services/Ocean/World_Ocean_Base/MapServer/tile/", "{z}", "/", "{y}", "/", "{x}">>,
       tile_size |-> 256,
       requires_api_key |-> FALSE,
       special_handling |-> None,
       description |-> "Esri World Ocean Base",
       min_zoom |-> 0,
       max_zoom |-> 10,
       attribution |-> "Source: Esri, GEBCO, NOAA, National Geographic, Garmin, HERE, Geonames.org",
       license_url |-> "https://www.esri.com/en-us/legal/terms/full-master-agreement",
       data_source |-> "Esri/GEBCO"])
  @@ ("Carto.Positron" :> [
       url_template |-> <<"https://a.basemaps.cartocdn.com/light_all/", "{z}", "/", "{x}", "/", "{y}", "@2x.png">>,
       tile_size |-> 512,
       requires_api_key |-> FALSE,
       special_handling |-> None,
       description |-> "Carto Positron (light basemap)",
       min_zoom |-> 0,
       max_zoom |-> 20,
       attribution |-> "(c) CARTO, (c) OpenStreetMap contributors",
       license_url |-> "https://carto.com/legal/",
       data_source |-> "OpenStreetMap"])
  @@ ("Carto.DarkMatter" :> [
       url_template |-> <<"https://a.basemaps.cartocdn.com/dark_all/", "{z}", "/", "{x}", "/", "{y}", "@2x.png">>,
       tile_size |-> 512,
       requires_api_key |-> FALSE,
       special_handling |-> None,
       description |-> "Carto Dark Matter (dark basemap)",
       min_zoom |-> 0,
       max_zoom |-> 20,
       attribution |-> "(c) CARTO, (c) OpenStreetMap contributors",
       license_url |-> "https://carto.com/legal/",
       data_source |-> "OpenStreetMap"])
  @@ ("OSM.Standard" :> [
       url_template |-> <<"https://tile.openstreetmap.org/", "{z}", "/", "{x}", "/", "{y}", ".png">>,
       tile_size |-> 256,
       requires_api_key |-> FALSE,
       special_handling |-> None,
       description |-> "OpenStreetMap Standard tiles",
       min_zoom |-> 0,
       max_zoom |-> 19,
       attribution |-> "(c) OpenStreetMap contributors",
       license_url |-> "https://www.openstreetmap.org/copyright",
       data_source |-> "OpenStreetMap"])

\* dict order of _PROVIDERS.keys()
ProviderOrder ==
  <<"Stadia.StamenTerrain", "Stadia.AlidadeSmooth", "Esri.Terrain", "Esri.Relief",
    "Esri.Hydro", "Esri.WorldImagery", "Esri.WorldTopo", "Esri.NatGeo",
    "Esri.WorldStreet", "Esri.GrayCanvasBase", "Esri.GrayCanvasLabels",
    "Esri.WorldOceanBase", "Carto.Positron", "Carto.DarkMatter", "OSM.Standard">>

ProviderIds == {ProviderOrder[i] : i \in 1..Len(ProviderOrder)}

\* dict.get(key, default) on a configuration record
Get(config, key, default) == IF key \in DOMAIN config THEN config[key] ELSE default

\* "Stadia" in provider, for the identifiers the model uses
ContainsStadia(provider) == provider \in {"Stadia.StamenTerrain", "Stadia.AlidadeSmooth"}

\* The marker held by `client` before any construction succeeded.
NoClient == [constructed |-> FALSE]

\* The marker held by `last` before any call.
NoSource == [made |-> FALSE]
NoCall == [op |-> "none", status |-> "none"]

\* Outcomes of a call: a return value or a raised exception.
Return(v) == [status |-> "return", value |-> v]
Raise(e) == [status |-> "raise", error |-> e]

\* Whether the import of requests and Pillow failed (raster_map_servers.py 39-44).
DepsMissing == FALSE

\* A variant of BaseTileServer.__init__ that reads the environment first and
\* falls back to the api_key argument.
BaseInitEnvironmentFirst(reg, env, provider, api_key) ==
  IF provider \notin DOMAIN reg
  THEN [out |-> Raise([type |-> "ValueError", kind |-> "UnknownProvider",
                       provider |-> provider]),
        warns |-> <<>>]
  ELSE LET config == reg[provider]
           key == IF config.requires_api_key
                  THEN IF Truthy(env) THEN env ELSE api_key
                  ELSE api_key
       IN [out |-> Return([constructed |-> TRUE, provider |-> provider,
                           config |-> config, tile_size |-> Get(config, "tile_size", None),
                           api_key |-> key]),
           warns |-> IF config.requires_api_key /\ ~Truthy(key)
                     THEN <<[category |-> "UserWarning", kind |-> "MissingApiKey",
                             provider |-> provider, env_key |-> "STADIA_API_KEY"]>>
                     ELSE <<>>]

(***************************************************************************)
(* BaseTileServer.__init__: provider lookup and API key resolution.        *)
(* Yields the outcome, the new object's attributes and the warnings.       *)
(***************************************************************************)
BaseInit(reg, env, provider, api_key) ==
  IF provider \notin DOMAIN reg
  THEN [out |-> Raise([type |-> "ValueError", kind |-> "UnknownProvider",
                       provider |-> provider]),
        warns |-> <<>>]
  ELSE LET config == reg[provider]
           env_key == IF Truthy(Get(config, "api_env", None))
                      THEN config["api_env"]
                      ELSE IF ContainsStadia(provider) THEN "STADIA_API_KEY" ELSE None
           key == IF config.requires_api_key
                  THEN IF Truthy(api_key) THEN api_key
                       ELSE IF Truthy(env_key) THEN env ELSE None
                  ELSE api_key
           w == IF config.requires_api_key /\ ~Truthy(api_key)
                   /\ Truthy(env_key) /\ ~Truthy(env)
                THEN <<[category |-> "UserWarning", kind |-> "MissingApiKey",
                        provider |-> provider, env_key |-> env_key]>>
                ELSE <<>>
       IN [out |-> Return([constructed |-> TRUE, provider |-> provider,
                           config |-> config, tile_size |-> Get(config, "tile_size", None),
                           api_key |-> key]),
           warns |-> w]

\* RasterTileServer.__init__
RasterInit(reg, env, provider, api_key) ==
  IF DepsMissing
  THEN [out |-> Raise([type |-> "ImportError", kind |-> "MissingPackages"]), warns |-> <<>>]
  ELSE BaseInit(reg, env, provider, api_key)

\* BaseTileServer.get_available_providers
GetAvailableProviders(order) == order

\* BaseTileServer.get_provider_info
GetProviderInfo(reg, provider) ==
  IF Truthy(provider)
  THEN IF provider \notin DOMAIN reg
       THEN Raise([type |-> "ValueError", kind |-> "UnknownProvider", provider |-> provider])
       ELSE Return(reg[provider])
  ELSE Return([k \in DOMAIN reg |-> reg[k]])

\* Object identity.  The registry dictionary and each of its entries is one
\* object; a call hands out either such an object or a new one.
RegistryObject == <<"_PROVIDERS">>
RegistryEntry(provider) == <<"_PROVIDERS", provider>>

\* A variant of dict.copy() that hands out the dictionary itself.
DictCopyShared(id) == id

\* dict.copy(): a new dictionary with the same items.
DictCopy(id) == <<"copy of">> \o id

\* The objects get_provider_info returns (lines 102-106): the returned
\* dictionary and, for the listing of all providers, the dictionaries in it.
ProviderInfoObjects(reg, provider) ==
  IF Truthy(provider)
  THEN IF provider \notin DOMAIN reg
       THEN [self |-> <<>>, entries |-> <<>>]
       ELSE [self |-> DictCopy(RegistryEntry(provider)), entries |-> <<>>]
  ELSE [self |-> <<"dict comprehension">>,
        entries |-> [k \in DOMAIN reg |-> DictCopy(RegistryEntry(k))]]

\* cls._PROVIDERS.keys(): the keys of the registry in insertion order.
RegistryKeys(reg) == SelectSeq(ProviderOrder, LAMBDA k : k \in DOMAIN reg)

\* The characters of the texts the license string is made of: the registry's
\* attribution texts and license URLs, the default attribution, and year texts.
TextChars ==
     ("(c) Stadia Maps, (c) Stamen Design, (c) OpenMapTiles, (c) OpenStreetMap contributors" :>
       <<"(", "c", ")", " ", "S", "t", "a", "d", "i", "a", " ", "M", "a", "p", "s", ",",
         " ", "(", "c", ")", " ", "S", "t", "a", "m", "e", "n", " ", "D", "e", "s", "i",
         "g", "n", ",", " ", "(", "c", ")", " ", "O", "p", "e", "n", "M", "a", "p", "T",
         "i", "l", "e", "s", ",", " ", "(", "c", ")", " ", "O", "p", "e", "n", "S", "t",
         "r", "e", "e", "t", "M", "a", "p", " ", "c", "o", "n", "t", "r", "i", "b", "u",
         "t", "o", "r", "s">>)
  @@ ("https://stadiamaps.com/terms-of-service/" :>
       <<"h", "t", "t", "p", "s", ":", "/", "/", "s", "t", "a", "d", "i", "a", "m", "a",
         "p", "s", ".", "c", "o", "m", "/", "t", "e", "r", "m", "s", "-", "o", "f", "-",
         "s", "e", "r", "v", "i", "c", "e", "/">>)
  @@ ("(c) Stadia Maps, (c) OpenMapTiles, (c) OpenStreetMap contributors" :>
       <<"(", "c", ")", " ", "S", "t", "a", "d", "i", "a", " ", "M", "a", "p", "s", ",",
         " ", "(", "c", ")", " ", "O", "p", "e", "n", "M", "a", "p", "T", "i", "l", "e",
         "s", ",", " ", "(", "c", ")", " ", "O", "p", "e", "n", "S", "t", "r", "e", "e",
         "t", "M", "a", "p", " ", "c", "o", "n", "t", "r", "i", "b", "u", "t", "o", "r", "s">>)
  @@ ("Source: Esri, Earthstar Geographics" :>
       <<"S", "o", "u", "r", "c", "e", ":", " ", "E", "s", "r", "i", ",", " ", "E", "a",
         "r", "t", "h", "s", "t", "a", "r", " ", "G", "e", "o", "g", "r", "a", "p", "h",
         "i", "c", "s">>)
  @@ ("https://www.esri.com/en-us/legal/terms/full-master-agreement" :>
       <<"h", "t", "t", "p", "s", ":", "/", "/", "w", "w", "w", ".", "e", "s", "r", "i",
         ".", "c", "o", "m", "/", "e", "n", "-", "u", "s", "/", "l", "e", "g", "a", "l",
         "/", "t", "e", "r", "m", "s", "/", "f", "u", "l", "l", "-", "m", "a", "s", "t",
         "e", "r", "-", "a", "g", "r", "e", "e", "m", "e", "n", "t">>)
  @@ ("Source: Esri" :>
       <<"S", "o", "u", "r", "c", "e", ":", " ", "E", "s", "r", "i">>)
  @@ ("Source: Esri, Maxar, Earthstar Geographics, and the GIS User Community" :>
       <<"S", "o", "u", "r", "c", "e", ":", " ", "E", "s", "r", "i", ",", " ", "M", "a",
         "x", "a", "r", ",", " ", "E", "a", "r", "t", "h", "s", "t", "a", "r", " ", "G",
         "e", "o", "g", "r", "a", "p", "h", "i", "c", "s", ",", " ", "a", "n", "d", " ",
         "t", "h", "e", " ", "G", "I", "S", " ", "U", "s", "e", "r", " ", "C", "o", "m",
         "m", "u", "n", "i", "t", "y">>)
  @@ ("Source: Esri, HERE, Garmin, Intermap, increment P Corp., GEBCO, USGS, FAO, NPS, NRCAN, GeoBase, IGN, Kadaster NL, Ordnance Survey, Esri Japan, METI, Esri China (Hong Kong), (c) OpenStreetMap contributors, GIS User Community" :>
       <<"S", "o", "u", "r", "c", "e", ":", " ", "E", "s", "r", "i", ",", " ", "H", "E",
         "R", "E", ",", " ", "G", "a", "r", "m", "i", "n", ",", " ", "I", "n", "t", "e",
         "r", "m", "a", "p", ",", " ", "i", "n", "c", "r", "e", "m", "e", "n", "t", " ",
         "P", " ", "C", "o", "r", "p", ".", ",", " ", "G", "E", "B", "C", "O", ",", " ",
         "U", "S", "G", "S", ",", " ", "F", "A", "O", ",", " ", "N", "P", "S", ",", " ",
         "N", "R", "C", "A", "N", ",", " ", "G", "e", "o", "B", "a", "s", "e", ",", " ",
         "I", "G", "N", ",", " ", "K", "a", "d", "a", "s", "t", "e", "r", " ", "N", "L",
         ",", " ", "O", "r", "d", "n", "a", "n", "c", "e", " ", "S", "u", "r", "v", "e",
         "y", ",", " ", "E", "s", "r", "i", " ", "J", "a", "p", "a", "n", ",", " ", "M",
         "E", "T", "I", ",", " ", "E", "s", "r", "i", " ", "C", "h", "i", "n", "a", " ",
         "(", "H", "o", "n", "g", " ", "K", "o", "n", "g", ")", ",", " ", "(", "c", ")",
         " ", "O", "p", "e", "n", "S", "t", "r", "e", "e", "t", "M", "a", "p", " ", "c",
         "o", "n", "t", "r", "i", "b", "u", "t", "o", "r", "s", ",", " ", "G", "I", "S",
         " ", "U", "s", "e", "r", " ", "C", "o", "m", "m", "u", "n", "i", "t", "y">>)
  @@ ("Source: National Geographic, Esri, Garmin, HERE, UNEP-WCMC, USGS, NASA, ESA, METI, NRCAN, GEBCO, NOAA, increment P Corp." :>
       <<"S", "o", "u", "r", "c", "e", ":", " ", "N", "a", "t", "i", "o", "n", "a", "l",
         " ", "G", "e", "o", "g", "r", "a", "p", "h", "i", "c", ",", " ", "E", "s", "r",
         "i", ",", " ", "G", "a", "r", "m", "i", "n", ",", " ", "H", "E", "R", "E", ",",
         " ", "U", "N", "E", "P", "-", "W", "C", "M", "C", ",", " ", "U", "S", "G", "S",
         ",", " ", "N", "A", "S", "A", ",", " ", "E", "S", "A", ",", " ", "M", "E", "T",
         "I", ",", " ", "N", "R", "C", "A", "N", ",", " ", "G", "E", "B", "C", "O", ",",
         " ", "N", "O", "A", "A", ",", " ", "i", "n", "c", "r", "e", "m", "e", "n", "t",
         " ", "P", " ", "C", "o", "r", "p", ".">>)
  @@ ("Source: Esri, HERE, Garmin, USGS, Intermap, INCREMENT P, NRCan, Esri Japan, METI, Esri China (Hong Kong), Esri Korea, Esri (Thailand), NGCC, (c) OpenStreetMap contributors, GIS User Community" :>
       <<"S", "o", "u", "r", "c", "e", ":", " ", "E", "s", "r", "i", ",", " ", "H", "E",
         "R", "E", ",", " ", "G", "a", "r", "m", "i", "n", ",", " ", "U", "S", "G", "S",
         ",", " ", "I", "n", "t", "e", "r", "m", "a", "p", ",", " ", "I", "N", "C", "R",
         "E", "M", "E", "N", "T", " ", "P", ",", " ", "N", "R", "C", "a", "n", ",", " ",
         "E", "s", "r", "i", " ", "J", "a", "p", "a", "n", ",", " ", "M", "E", "T", "I",
         ",", " ", "E", "s", "r", "i", " ", "C", "h", "i", "n", "a", " ", "(", "H", "o",
         "n", "g", " ", "K", "o", "n", "g", ")", ",", " ", "E", "s", "r", "i", " ", "K",
         "o", "r", "e", "a", ",", " ", "E", "s", "r", "i", " ", "(", "T", "h", "a", "i",
         "l", "a", "n", "d", ")", ",", " ", "N", "G", "C", "C", ",", " ", "(", "c", ")",
         " ", "O", "p", "e", "n", "S", "t", "r", "e", "e", "t", "M", "a", "p", " ", "c",
         "o", "n", "t", "r", "i", "b", "u", "t", "o", "r", "s", ",", " ", "G", "I", "S",
         " ", "U", "s", "e", "r", " ", "C", "o", "m", "m", "u", "n", "i", "t", "y">>)
  @@ ("Source: Esri, HERE, Garmin, (c) OpenStreetMap contributors, GIS User Community" :>
       <<"S", "o", "u", "r", "c", "e", ":", " ", "E", "s", "r", "i", ",", " ", "H", "E",
         "R", "E", ",", " ", "G", "a", "r", "m", "i", "n", ",", " ", "(", "c", ")", " ",
         "O", "p", "e", "n", "S", "t", "r", "e", "e", "t", "M", "a", "p", " ", "c", "o",
         "n", "t", "r", "i", "b", "u", "t", "o", "r", "s", ",", " ", "G", "I", "S", " ",
         "U", "s", "e", "r", " ", "C", "o", "m", "m", "u", "n", "i", "t", "y">>)
  @@ ("Source: Esri, GEBCO, NOAA, National Geographic, Garmin, HERE, Geonames.org" :>
       <<"S", "o", "u", "r", "c", "e", ":", " ", "E", "s", "r", "i", ",", " ", "G", "E",
         "B", "C", "O", ",", " ", "N", "O", "A", "A", ",", " ", "N", "a", "t", "i", "o",
         "n", "a", "l", " ", "G", "e", "o", "g", "r", "a", "p", "h", "i", "c", ",", " ",
         "G", "a", "r", "m", "i", "n", ",", " ", "H", "E", "R", "E", ",", " ", "G", "e",
         "o", "n", "a", "m", "e", "s", ".", "o", "r", "g">>)
  @@ ("(c) CARTO, (c) OpenStreetMap contributors" :>
       <<"(", "c", ")", " ", "C", "A", "R", "T", "O", ",", " ", "(", "c", ")", " ", "O",
         "p", "e", "n", "S", "t", "r", "e", "e", "t", "M", "a", "p", " ", "c", "o", "n",
         "t", "r", "i", "b", "u", "t", "o", "r", "s">>)
  @@ ("https://carto.com/legal/" :>
       <<"h", "t", "t", "p", "s", ":", "/", "/", "c", "a", "r", "t", "o", ".", "c", "o",
         "m", "/", "l", "e", "g", "a", "l", "/">>)
  @@ ("(c) OpenStreetMap contributors" :>
       <<"(", "c", ")", " ", "O", "p", "e", "n", "S", "t", "r", "e", "e", "t", "M", "a",
         "p", " ", "c", "o", "n", "t", "r", "i", "b", "u", "t", "o", "r", "s">>)
  @@ ("https://www.openstreetmap.org/copyright" :>
       <<"h", "t", "t", "p", "s", ":", "/", "/", "w", "w", "w", ".", "o", "p", "e", "n",
         "s", "t", "r", "e", "e", "t", "m", "a", "p", ".", "o", "r", "g", "/", "c", "o",
         "p", "y", "r", "i", "g", "h", "t">>)
  @@ ("Map tiles" :>
       <<"M", "a", "p", " ", "t", "i", "l", "e", "s">>)
  @@ ("" :>
       <<>>)
  @@ ("2024" :>
       <<"2", "0", "2", "4">>)
  @@ ("2026" :>
       <<"2", "0", "2", "6">>)
  @@ ("2027" :>
       <<"2", "0", "2", "7">>)

\* A Python string as the sequence of its characters.
Chars(s) == TextChars[s]

\* str(n) of a year number.
Str(n) == ToString(n)

\* A variant of get_license_info that appends the license URL whenever the
\* profile has one.
GetLicenseInfoUrlAlways(self, now, year, include_url) ==
  LET y == IF year = None THEN Str(now) ELSE year
      attribution == Chars(Get(self.config, "attribution", "Map tiles"))
      license_url == Chars(Get(self.config, "license_url", ""))
      license_info == attribution \o <<" ", "(">> \o Chars(y) \o <<")">>
  IN Return(IF license_url # <<>>
            THEN license_info \o <<".", " ", "L", "i", "c", "e", "n", "s", "e", ":", " ">> \o license_url
            ELSE license_info)

\* RasterTileServer.get_license_info; now is the year of datetime.now().
GetLicenseInfo(self, now, year, include_url) ==
  LET y == IF year = None THEN Str(now) ELSE year
      attribution == Chars(Get(self.config, "attribution", "Map tiles"))
      license_url == Chars(Get(self.config, "license_url", ""))
      license_info == attribution \o <<" ", "(">> \o Chars(y) \o <<")">>
  IN Return(IF include_url /\ license_url # <<>>
            THEN license_info \o <<".", " ", "L", "i", "c", "e", "n", "s", "e", ":", " ">> \o license_url
            ELSE license_info)

\* " | ".join(texts)
JoinPiped(texts) ==
  IF texts = <<>> THEN <<>>
  ELSE LET RECURSIVE from(_)
           from(i) == IF i > Len(texts) THEN <<>>
                      ELSE <<" ", "|", " ">> \o texts[i] \o from(i + 1)
       IN texts[1] \o from(2)

\* The positions at which " | " starts in a text.
PipedAt(text) ==
  {i \in 1..(Len(text) - 2) : text[i] = " " /\ text[i + 1] = "|" /\ text[i + 2] = " "}

\* len(text.split(" | ")): one more than the separators found left to right.
RECURSIVE SplitPipedFrom(_, _)
SplitPipedFrom(text, i) ==
  LET ahead == {j \in PipedAt(text) : j >= i}
  IN IF ahead = {} THEN 1
     ELSE 1 + SplitPipedFrom(text, (CHOOSE j \in ahead : \A k \in ahead : j <= k) + 3)
SplitPipedCount(text) == SplitPipedFrom(text, 1)

\* Variants of _validate_zoom_level with one rule changed.
\* The base zoom is coerced into the provider's range instead of rejected.
ValidateZoomLevelCoerced(self, zoom_level, supersample) ==
  LET min_zoom == Get(self.config, "min_zoom", 0)
      max_zoom == Get(self.config, "max_zoom", 18)
      z == Max(min_zoom, Min(max_zoom, zoom_level))
  IN [out |-> Return(<<Min(max_zoom, z + supersample), Min(max_zoom, z + supersample) - z>>),
      warns |-> <<>>]

\* The fetch zoom is capped but the supersample is returned as requested.
ValidateZoomLevelStaleSupersample(self, zoom_level, supersample) ==
  LET min_zoom == Get(self.config, "min_zoom", 0)
      max_zoom == Get(self.config, "max_zoom", 18)
  IN IF zoom_level < min_zoom \/ zoom_level > max_zoom
     THEN [out |-> Raise([type |-> "ValueError", kind |-> "ZoomOutOfRange",
                          zoom |-> zoom_level, limit |-> max_zoom]),
           warns |-> <<>>]
     ELSE [out |-> Return(<<Min(max_zoom, zoom_level + supersample), supersample>>),
           warns |-> IF zoom_level + supersample > max_zoom
                     THEN <<[category |-> "UserWarning", kind |-> "SupersampleReduced"]>>
                     ELSE <<>>]

\* The supersample is never reduced.
ValidateZoomLevelUnclamped(self, zoom_level, supersample) ==
  LET min_zoom == Get(self.config, "min_zoom", 0)
      max_zoom == Get(self.config, "max_zoom", 18)
  IN IF zoom_level < min_zoom \/ zoom_level > max_zoom
     THEN [out |-> Raise([type |-> "ValueError", kind |-> "ZoomOutOfRange",
                          zoom |-> zoom_level, limit |-> max_zoom]),
           warns |-> <<>>]
     ELSE [out |-> Return(<<zoom_level + supersample, supersample>>), warns |-> <<>>]

\* The downgrade is made, and announced, already when the fetch zoom reaches
\* max_zoom.
ValidateZoomLevelWarnsAtCeiling(self, zoom_level, supersample) ==
  LET fetch_zoom == zoom_level + supersample
      min_zoom == Get(self.config, "min_zoom", 0)
      max_zoom == Get(self.config, "max_zoom", 18)
  IN IF zoom_level < min_zoom
     THEN [out |-> Raise([type |-> "ValueError", kind |-> "ZoomOutOfRange",
                          zoom |-> zoom_level, limit |-> min_zoom]),
           warns |-> <<>>]
     ELSE IF zoom_level > max_zoom
     THEN [out |-> Raise([type |-> "ValueError", kind |-> "ZoomOutOfRange",
                          zoom |-> zoom_level, limit |-> max_zoom]),
           warns |-> <<>>]
     ELSE IF fetch_zoom >= max_zoom
     THEN LET adjusted == Max(0, max_zoom - zoom_level)
          IN [out |-> Return(<<zoom_level + adjusted, adjusted>>),
              warns |-> <<[category |-> "UserWarning", kind |-> "SupersampleReduced",
                           provider |-> self.provider, max_zoom |-> max_zoom,
                           zoom |-> zoom_level, requested |-> supersample,
                           fetch_zoom |-> fetch_zoom, supersample |-> adjusted]>>]
     ELSE [out |-> Return(<<fetch_zoom, supersample>>), warns |-> <<>>]

\* The supersample is reduced without a warning.
ValidateZoomLevelSilent(self, zoom_level, supersample) ==
  LET min_zoom == Get(self.config, "min_zoom", 0)
      max_zoom == Get(self.config, "max_zoom", 18)
      adjusted == IF zoom_level + supersample > max_zoom
                  THEN Max(0, max_zoom - zoom_level) ELSE supersample
  IN IF zoom_level < min_zoom \/ zoom_level > max_zoom
     THEN [out |-> Raise([type |-> "ValueError", kind |-> "ZoomOutOfRange",
                          zoom |-> zoom_level, limit |-> max_zoom]),
           warns |-> <<>>]
     ELSE [out |-> Return(<<zoom_level + adjusted, adjusted>>), warns |-> <<>>]

(***************************************************************************)
(* RasterTileServer._validate_zoom_level (the definition in force is the   *)
(* second one of the class body, lines 868-891).                           *)
(***************************************************************************)
ValidateZoomLevel(self, zoom_level, supersample) ==
  LET fetch_zoom == zoom_level + supersample
      min_zoom == Get(self.config, "min_zoom", 0)
      max_zoom == Get(self.config, "max_zoom", 18)
  IN IF zoom_level < min_zoom
     THEN [out |-> Raise([type |-> "ValueError", kind |-> "ZoomOutOfRange",
                          zoom |-> zoom_level, limit |-> min_zoom]),
           warns |-> <<>>]
     ELSE IF zoom_level > max_zoom
     THEN [out |-> Raise([type |-> "ValueError", kind |-> "ZoomOutOfRange",
                          zoom |-> zoom_level, limit |-> max_zoom]),
           warns |-> <<>>]
     ELSE IF fetch_zoom > max_zoom
     THEN LET adjusted == Max(0, max_zoom - zoom_level)
          IN [out |-> Return(<<zoom_level + adjusted, adjusted>>),
              warns |-> <<[category |-> "UserWarning", kind |-> "SupersampleReduced",
                           provider |-> self.provider, max_zoom |-> max_zoom,
                           zoom |-> zoom_level, requested |-> supersample,
                           fetch_zoom |-> fetch_zoom, supersample |-> adjusted]>>]
     ELSE [out |-> Return(<<fetch_zoom, supersample>>), warns |-> <<>>]

(***************************************************************************)
(* Images (PIL.Image as the code uses it).  An image has a mode, a size    *)
(* <<width, height>>, a base and the pastes made onto it, in order.  The    *)
(* base is a fill colour (Image.new), explicit pixel data (a decoded        *)
(* payload) or the result of a resize of another image.  PixelAt gives     *)
(* the pixel an image holds at a coordinate.                               *)
(***************************************************************************)
Transparent == <<0, 0, 0, 0>>

\* Image.new(mode, size, color); color defaults to 0, i.e. (0, 0, 0, 0) in RGBA
ImageNew(mode, size, color) ==
  [mode |-> mode, size |-> size, base |-> [k |-> "fill", color |-> color], pastes |-> <<>>]

\* A decoded payload holding one colour in every pixel.
ImageFill(mode, size, color) == ImageNew(mode, size, color)

\* A decoded payload given pixel by pixel; at[<<x, y>>] is the pixel.
ImageData(mode, size, at) ==
  [mode |-> mode, size |-> size, base |-> [k |-> "data", at |-> at], pastes |-> <<>>]

Coords(size) == (0..(size[1] - 1)) \X (0..(size[2] - 1))

\* The pixel conversion of Image.convert and of paste between RGB and RGBA.
ConvertPixel(from, to, p) ==
  IF from = to THEN p
  ELSE IF from = "RGB" /\ to = "RGBA" THEN <<p[1], p[2], p[3], 255>>
  ELSE <<p[1], p[2], p[3]>>

\* The marker of a pixel computed by a resampling filter.
Resampled(filter) == <<"resampled", filter>>

\* Whether paste number i of img covers the coordinate.
Covers(img, i, x, y) ==
  LET p == img.pastes[i]
  IN /\ p.at[1] <= x /\ x < p.at[1] + p.im.size[1]
     /\ p.at[2] <= y /\ y < p.at[2] + p.im.size[2]

RECURSIVE PixelAt(_, _, _)
PixelAt(img, x, y) ==
  LET hit == {i \in 1..Len(img.pastes) : Covers(img, i, x, y)}
  IN IF hit # {}
     THEN LET i == CHOOSE j \in hit : \A k \in hit : k <= j
              p == img.pastes[i]
          IN ConvertPixel(p.im.mode, img.mode, PixelAt(p.im, x - p.at[1], y - p.at[2]))
     ELSE IF img.base.k = "fill" THEN img.base.color
     ELSE IF img.base.k = "data" THEN img.base.at[<<x, y>>]
     ELSE IF img.base.src.size = img.size
          THEN ConvertPixel(img.base.src.mode, img.mode, PixelAt(img.base.src, x, y))
          ELSE Resampled(img.base.filter)

\* Image.paste(im, (x, y)) without a mask: im's pixels replace the canvas's.
Paste(canvas, im, at) ==
  [canvas EXCEPT !.pastes = Append(@, [im |-> im, at |-> at])]

\* Image.resize(size, resample=filter)
Resize(img, size, filter) ==
  [mode |-> img.mode, size |-> size,
   base |-> [k |-> "resize", src |-> img, filter |-> filter], pastes |-> <<>>]

\* Image.convert(mode)
Convert(img, mode) ==
  IF img.pastes = <<>> /\ img.base.k = "fill"
  THEN ImageNew(mode, img.size, ConvertPixel(img.mode, mode, img.base.color))
  ELSE ImageData(mode, img.size,
                 [c \in Coords(img.size) |->
                    ConvertPixel(img.mode, mode, PixelAt(img, c[1], c[2]))])

\* A variant of the pixel rule that keys out every pixel darker than (2, 2, 2).
BlackToTransparentNearBlack(item) ==
  IF item[1] <= 1 /\ item[2] <= 1 /\ item[3] <= 1 THEN <<0, 0, 0, 0>> ELSE item

\* The pixel rule of _apply_special_handling (lines 675-680).
BlackToTransparent(item) ==
  IF item[1] = 0 /\ item[2] = 0 /\ item[3] = 0 THEN <<0, 0, 0, 0>> ELSE item

\* img.getdata(), the pixel loop and img.putdata(new_data) (lines 673-681)
PutBlackTransparent(img) ==
  IF img.pastes = <<>> /\ img.base.k = "fill"
  THEN ImageNew(img.mode, img.size, BlackToTransparent(img.base.color))
  ELSE ImageData(img.mode, img.size,
                 [c \in Coords(img.size) |-> BlackToTransparent(PixelAt(img, c[1], c[2]))])

\* RasterTileServer._apply_special_handling
ApplySpecialHandling(self, img) ==
  LET handling == Get(self.config, "special_handling", None)
  IN IF handling = "make_black_transparent"
     THEN PutBlackTransparent(Convert(img, "RGBA"))
     ELSE img

(***************************************************************************)
(* URL templates.                                                          *)
(***************************************************************************)
\* BaseTileServer.get_url_template
GetUrlTemplate(self) == Get(self.config, "url_template", <<>>)

\* str.format(z=, x=, y=, api_key=) on a template
RECURSIVE FormatTemplate(_, _, _, _, _)
FormatTemplate(template, z, x, y, api_key) ==
  IF template = <<>> THEN ""
  ELSE LET t == Head(template)
           s == IF t = "{z}" THEN ToString(z)
                ELSE IF t = "{x}" THEN ToString(x)
                ELSE IF t = "{y}" THEN ToString(y)
                ELSE IF t = "{api_key}" THEN api_key
                ELSE t
       IN s \o FormatTemplate(Tail(template), z, x, y, api_key)

\* BaseTileServer._build_tile_url
BuildTileUrl(self, z, x, y) ==
  FormatTemplate(GetUrlTemplate(self), z, x, y,
                 IF Truthy(self.api_key) THEN self.api_key ELSE "")

(***************************************************************************)
(* The tile service.  A server description sv fixes what the service       *)
(* answers to each request: which tiles it refuses and with what status,   *)
(* and the payload of the tiles it serves.                                 *)
(***************************************************************************)
Refused(sv, z, x, y) ==
  \/ sv.refuse = "all"
  \/ sv.refuse = "odd_x" /\ x % 2 = 1
  \/ sv.refuse = "even_x" /\ x % 2 = 0
  \/ sv.refuse = "odd_y" /\ y % 2 = 1
  \/ sv.refuse = "even_xy" /\ x % 2 = 0 /\ y % 2 = 0
  \/ sv.refuse = "diagonal" /\ (x + y) % 2 = 0

\* The outcome of requests.get(url) for the tile
Respond(sv, z, x, y) ==
  IF sv.refuse = "unreachable" THEN [kind |-> "exception"]
  ELSE IF Refused(sv, z, x, y)
  THEN [kind |-> "response", status_code |-> sv.status, content |-> sv.content]
  ELSE [kind |-> "response", status_code |-> 200, content |-> sv.content]

\* A variant of fetch_tile that decodes the body whatever the status code is.
FetchTileIgnoresStatus(self, sv, z, x, y) ==
  LET url == BuildTileUrl(self, z, x, y)
      response == Respond(sv, z, x, y)
      sent == <<[url |-> url, z |-> z, x |-> x, y |-> y]>>
  IN IF response.kind = "exception"
     THEN [out |-> Raise([type |-> "ConnectionError", kind |-> "Transport", url |-> url]),
           http |-> sent]
     ELSE IF ~response.content.decodable
     THEN [out |-> Raise([type |-> "UnidentifiedImageError", kind |-> "DecodeFailed"]),
           http |-> sent]
     ELSE [out |-> Return(ApplySpecialHandling(self, response.content.image)),
           http |-> sent]

\* RasterTileServer.fetch_tile; yields the outcome and the requests made
FetchTile(self, sv, z, x, y) ==
  LET url == BuildTileUrl(self, z, x, y)
      response == Respond(sv, z, x, y)
      sent == <<[url |-> url, z |-> z, x |-> x, y |-> y]>>
  IN IF response.kind = "exception"
     THEN [out |-> Raise([type |-> "ConnectionError", kind |-> "Transport", url |-> url]),
           http |-> sent]
     ELSE IF response.status_code = 200
     THEN IF ~response.content.decodable
          THEN [out |-> Raise([type |-> "UnidentifiedImageError", kind |-> "DecodeFailed"]),
                http |-> sent]
          ELSE LET img == response.content.image
               IN [out |-> Return(IF Truthy(self.config["special_handling"])
                                  THEN ApplySpecialHandling(self, img)
                                  ELSE img),
                   http |-> sent]
     ELSE [out |-> Raise([type |-> "Exception", kind |-> "FetchFailed",
                          provider |-> self.provider,
                          status |-> response.status_code, url |-> url]),
           http |-> sent]

(***************************************************************************)
(* RasterTileServer.combine_tiles (the definition in force: lines 844-864) *)
(***************************************************************************)
\* The paste loop, from cell number k (row-major) on: every cell's tile is
\* pasted (Image.paste, see Paste) at its place, in order; a row shorter than
\* the first one ends the loop with an IndexError.
PasteTiles(canvas, tiles, tile_size, rows, cols, k) ==
  LET cells == k..(rows * cols - 1)
      ragged == \E c \in cells : (c % cols) + 1 > Len(tiles[(c \div cols) + 1])
      pasted == [i \in 1..(rows * cols - k) |->
                   [im |-> tiles[((k + i - 1) \div cols) + 1][((k + i - 1) % cols) + 1],
                    at |-> <<((k + i - 1) % cols) * tile_size,
                             ((k + i - 1) \div cols) * tile_size>>]]
  IN IF ragged THEN Raise([type |-> "IndexError", kind |-> "RaggedGrid"])
     ELSE IF cells = {} THEN Return(canvas)
     ELSE Return([canvas EXCEPT !.pastes = @ \o pasted])

\* A variant of combine_tiles that takes tile [col][row] for cell [row][col]
\* wherever the grid holds one.
CombineTilesTransposed(tiles, tile_size) ==
  LET rows == Len(tiles)
      cols == IF rows > 0 THEN Len(tiles[1]) ELSE 0
      transposed == [r \in 1..rows |->
                       [c \in 1..Len(tiles[r]) |->
                          IF r <= cols /\ c <= rows /\ r <= Len(tiles[c])
                          THEN tiles[c][r] ELSE tiles[r][c]]]
  IN IF rows = 0 \/ cols = 0
     THEN Return(ImageNew("RGBA", <<tile_size, tile_size>>, Transparent))
     ELSE PasteTiles(ImageNew("RGBA", <<cols * tile_size, rows * tile_size>>, Transparent),
                     transposed, tile_size, rows, cols, 0)

\* A variant of combine_tiles that makes the canvas of an empty grid as it
\* makes every other one: cols * tile_size by rows * tile_size.
CombineTilesEmptyCanvas(tiles, tile_size) ==
  LET rows == Len(tiles)
      cols == IF rows > 0 THEN Len(tiles[1]) ELSE 0
  IN IF rows = 0 \/ cols = 0
     THEN Return(ImageNew("RGBA", <<cols * tile_size, rows * tile_size>>, Transparent))
     ELSE PasteTiles(ImageNew("RGBA", <<cols * tile_size, rows * tile_size>>, Transparent),
                     tiles, tile_size, rows, cols, 0)

CombineTiles(tiles, tile_size) ==
  LET rows == Len(tiles)
      cols == IF rows > 0 THEN Len(tiles[1]) ELSE 0
  IN IF rows = 0 \/ cols = 0
     THEN Return(ImageNew("RGBA", <<tile_size, tile_size>>, Transparent))
     ELSE PasteTiles(ImageNew("RGBA", <<cols * tile_size, rows * tile_size>>, Transparent),
                     tiles, tile_size, rows, cols, 0)

(***************************************************************************)
(* Tile coordinate math.  Longitudes and latitudes are counted in units    *)
(* of 0.0001 degree.  The two projection fractions of lonlat_to_tile are   *)
(* tabulated for the coordinates the model uses, as produced by the        *)
(* source expression in double precision, scaled by 2^FracBits and         *)
(* truncated toward zero; ok is FALSE where math.log raises.               *)
(***************************************************************************)
FracBits == 26

\* int(): truncation toward zero of a / b, b > 0
TruncDiv(a, b) == IF a >= 0 THEN a \div b ELSE 0 - ((0 - a) \div b)

\* (lon + 180.0) / 360.0
LonFraction ==
     ((-1800000) :> [ok |-> TRUE, v |-> 0])
  @@ ((-1810000) :> [ok |-> TRUE, v |-> (0 - 186413)])
  @@ ((-1225000) :> [ok |-> TRUE, v |-> 10718776])
  @@ ((-1223000) :> [ok |-> TRUE, v |-> 10756059])
  @@ ((-1) :> [ok |-> TRUE, v |-> 33554413])
  @@ (0 :> [ok |-> TRUE, v |-> 33554432])
  @@ (1 :> [ok |-> TRUE, v |-> 33554450])
  @@ (100001 :> [ok |-> TRUE, v |-> 35418585])
  @@ (100002 :> [ok |-> TRUE, v |-> 35418604])
  @@ (1799999 :> [ok |-> TRUE, v |-> 67108845])
  @@ (1800000 :> [ok |-> TRUE, v |-> 67108864])

\* (1.0 - math.log(math.tan(lat_rad) + 1 / math.cos(lat_rad)) / math.pi) / 2.0
MercatorFraction ==
     ((-910000) :> [ok |-> FALSE, v |-> 0])
  @@ ((-900000) :> [ok |-> FALSE, v |-> 0])
  @@ ((-890000) :> [ok |-> TRUE, v |-> 84195390])
  @@ ((-850000) :> [ok |-> TRUE, v |-> 66998945])
  @@ ((-849999) :> [ok |-> TRUE, v |-> 66998731])
  @@ ((-1) :> [ok |-> TRUE, v |-> 33554450])
  @@ (0 :> [ok |-> TRUE, v |-> 33554432])
  @@ (1 :> [ok |-> TRUE, v |-> 33554413])
  @@ (100001 :> [ok |-> TRUE, v |-> 31680741])
  @@ (100002 :> [ok |-> TRUE, v |-> 31680722])
  @@ (377000 :> [ok |-> TRUE, v |-> 25956636])
  @@ (378000 :> [ok |-> TRUE, v |-> 25933060])
  @@ (849999 :> [ok |-> TRUE, v |-> 110132])
  @@ (850000 :> [ok |-> TRUE, v |-> 109918])
  @@ (850600 :> [ok |-> TRUE, v |-> (0 - 19186)])
  @@ (890000 :> [ok |-> TRUE, v |-> (0 - 17086526)])
  @@ (900000 :> [ok |-> TRUE, v |-> (0 - 372579504)])
  @@ (910000 :> [ok |-> FALSE, v |-> 0])

\* RasterTileServer.lonlat_to_tile (the definition in force: lines 917-930)
LonLatToTile(lon, lat, zoom) ==
  IF ~MercatorFraction[lat].ok
  THEN Raise([type |-> "ValueError", kind |-> "MathDomainError"])
  ELSE Return(<<TruncDiv(LonFraction[lon].v, Pow2(FracBits - zoom)),
                TruncDiv(MercatorFraction[lat].v, Pow2(FracBits - zoom))>>)

\* A variant of extent_to_tile_indices that takes y_min from the (minx, miny)
\* corner and y_max from the (maxx, maxy) corner.
ExtentToTileIndicesRowsSwapped(extent, zoom) ==
  LET lo == LonLatToTile(extent[1], extent[3], zoom)
      hi == LonLatToTile(extent[2], extent[4], zoom)
  IN IF lo.status = "raise" THEN lo
     ELSE IF hi.status = "raise" THEN hi
     ELSE Return(<<lo.value[1], lo.value[2], hi.value[1], hi.value[2]>>)

\* RasterTileServer.extent_to_tile_indices (the definition in force: lines 828-842);
\* an extent is <<minx, maxx, miny, maxy>>, the result <<x_min, y_min, x_max, y_max>>
ExtentToTileIndices(extent, zoom) ==
  LET lo == LonLatToTile(extent[1], extent[3], zoom)
      hi == LonLatToTile(extent[2], extent[4], zoom)
  IN IF lo.status = "raise" THEN lo
     ELSE IF hi.status = "raise" THEN hi
     ELSE Return(<<lo.value[1], hi.value[2], hi.value[1], lo.value[2]>>)

\* str.lower() on the method names the model passes.
Lower(method) ==
  CASE method = "Nearest" -> "nearest"
    [] method = "BILINEAR" -> "bilinear"
    [] method = "Quality" -> "quality"
    [] OTHER -> method

\* A variant of _get_resample_filter that looks the name up as it is written.
GetResampleFilterAsWritten(method) ==
  IF method \in {"lanczos", "bicubic", "bilinear", "nearest"} THEN method ELSE "lanczos"

\* RasterTileServer._get_resample_filter
GetResampleFilter(method) ==
  IF Lower(method) \in {"lanczos", "bicubic", "bilinear", "nearest"}
  THEN Lower(method) ELSE "lanczos"

(***************************************************************************)
(* RasterTileServer.fetch_tiles_for_extent                                 *)
(***************************************************************************)
\* The fetch loops (lines 364-370) from row y, column x on; row and tiles are
\* the lists built so far, log the requests made so far.
\* A variant of the fetch loops that asks once more for a tile whose fetch
\* failed before giving up.
RECURSIVE FetchRowsRetryOnce(_, _, _, _, _, _, _, _, _, _)
FetchRowsRetryOnce(self, sv, fetch_zoom, x_min, x_max, y_max, y, x, acc, log) ==
  IF y > y_max THEN [out |-> Return(acc.tiles), http |-> log]
  ELSE IF x > x_max
  THEN FetchRowsRetryOnce(self, sv, fetch_zoom, x_min, x_max, y_max, y + 1, x_min,
                          [tiles |-> Append(acc.tiles, acc.row), row |-> <<>>], log)
  ELSE LET f == FetchTile(self, sv, fetch_zoom, x, y)
       IN IF f.out.status = "raise"
          THEN [out |-> f.out, http |-> log \o f.http \o f.http]
          ELSE FetchRowsRetryOnce(self, sv, fetch_zoom, x_min, x_max, y_max, y, x + 1,
                                  [tiles |-> acc.tiles, row |-> Append(acc.row, f.out.value)],
                                  log \o f.http)

\* A variant of the fetch loops that leaves a failed tile out of its row and
\* goes on with the next one.
RECURSIVE FetchRowsSkipFailed(_, _, _, _, _, _, _, _, _, _)
FetchRowsSkipFailed(self, sv, fetch_zoom, x_min, x_max, y_max, y, x, acc, log) ==
  IF y > y_max THEN [out |-> Return(acc.tiles), http |-> log]
  ELSE IF x > x_max
  THEN FetchRowsSkipFailed(self, sv, fetch_zoom, x_min, x_max, y_max, y + 1, x_min,
                           [tiles |-> Append(acc.tiles, acc.row), row |-> <<>>], log)
  ELSE LET f == FetchTile(self, sv, fetch_zoom, x, y)
       IN FetchRowsSkipFailed(self, sv, fetch_zoom, x_min, x_max, y_max, y, x + 1,
                              [tiles |-> acc.tiles,
                               row |-> IF f.out.status = "raise" THEN acc.row
                                       ELSE Append(acc.row, f.out.value)],
                              log \o f.http)

RECURSIVE FetchRows(_, _, _, _, _, _, _, _, _, _)
FetchRows(self, sv, fetch_zoom, x_min, x_max, y_max, y, x, acc, log) ==
  IF y > y_max THEN [out |-> Return(acc.tiles), http |-> log]
  ELSE IF x > x_max
  THEN FetchRows(self, sv, fetch_zoom, x_min, x_max, y_max, y + 1, x_min,
                 [tiles |-> Append(acc.tiles, acc.row), row |-> <<>>], log)
  ELSE LET f == FetchTile(self, sv, fetch_zoom, x, y)
       IN IF f.out.status = "raise"
          THEN [out |-> f.out, http |-> log \o f.http]
          ELSE FetchRows(self, sv, fetch_zoom, x_min, x_max, y_max, y, x + 1,
                         [tiles |-> acc.tiles, row |-> Append(acc.row, f.out.value)],
                         log \o f.http)

\* A variant of lines 372-405 that sizes the supersample result by the grid
\* that was fetched instead of the grid of the requested zoom.
ComposeSizedByFetchedGrid(self, tiles, extent, zoom_level, supersample, resample, resample_method) ==
  LET actual_tile_size == IF tiles # <<>> /\ tiles[1] # <<>>
                          THEN tiles[1][1].size[1] ELSE self.tile_size
      combined == CombineTiles(tiles, actual_tile_size)
  IN IF combined.status = "raise" THEN combined
     ELSE LET down == IF supersample > 0
                      THEN Resize(combined.value, combined.value.size,
                                  GetResampleFilter("lanczos"))
                      ELSE combined.value
              temp_size == <<(down.size[1] * 102) \div 100, (down.size[2] * 102) \div 100>>
          IN IF resample /\ supersample = 0
             THEN Return(Resize(Resize(down, temp_size, "bicubic"), down.size,
                                GetResampleFilter(resample_method)))
             ELSE Return(down)

\* A variant of lines 372-405 that smooths whenever resample is set, also after
\* a supersample downsample.
ComposeSmoothsAlways(self, tiles, extent, zoom_level, supersample, resample, resample_method) ==
  LET actual_tile_size == IF tiles # <<>> /\ tiles[1] # <<>>
                          THEN tiles[1][1].size[1] ELSE self.tile_size
      combined == CombineTiles(tiles, actual_tile_size)
  IN IF combined.status = "raise" THEN combined
     ELSE LET original == ExtentToTileIndices(extent, zoom_level)
              target == <<(original.value[3] - original.value[1] + 1) * self.tile_size,
                          (original.value[4] - original.value[2] + 1) * self.tile_size>>
              down == IF supersample > 0
                      THEN Resize(combined.value, target, GetResampleFilter("lanczos"))
                      ELSE combined.value
              temp_size == <<(down.size[1] * 102) \div 100, (down.size[2] * 102) \div 100>>
          IN IF supersample > 0 /\ original.status = "raise" THEN original
             ELSE IF resample
             THEN Return(Resize(Resize(down, temp_size, "bicubic"), down.size,
                                GetResampleFilter(resample_method)))
             ELSE Return(down)

\* Lines 372-405: combine the fetched grid and run the quality pipeline.
Compose(self, tiles, extent, zoom_level, supersample, resample, resample_method) ==
  LET actual_tile_size == IF tiles # <<>> /\ tiles[1] # <<>>
                          THEN tiles[1][1].size[1] ELSE self.tile_size
      combined == CombineTiles(tiles, actual_tile_size)
  IN IF combined.status = "raise" THEN combined
     ELSE LET original == ExtentToTileIndices(extent, zoom_level)
              target == <<(original.value[3] - original.value[1] + 1) * self.tile_size,
                          (original.value[4] - original.value[2] + 1) * self.tile_size>>
              down == IF supersample > 0
                      THEN Resize(combined.value, target, GetResampleFilter("lanczos"))
                      ELSE combined.value
              temp_size == <<(down.size[1] * 102) \div 100, (down.size[2] * 102) \div 100>>
          IN IF supersample > 0 /\ original.status = "raise" THEN original
             ELSE IF supersample > 0 /\ (target[1] < 1 \/ target[2] < 1)
             THEN Raise([type |-> "ValueError", kind |-> "ResizeToNothing"])
             ELSE IF resample /\ supersample = 0
             THEN Return(Resize(Resize(down, temp_size, "bicubic"), down.size,
                                GetResampleFilter(resample_method)))
             ELSE Return(down)

FetchTilesForExtent(self, sv, extent, zoom_level, supersample, resample, resample_method) ==
  LET v == ValidateZoomLevel(self, zoom_level, supersample)
  IN IF v.out.status = "raise" THEN [out |-> v.out, warns |-> v.warns, http |-> <<>>]
     ELSE LET fetch_zoom == v.out.value[1]
              adjusted == v.out.value[2]
              range == ExtentToTileIndices(extent, fetch_zoom)
          IN IF range.status = "raise"
             THEN [out |-> range, warns |-> v.warns, http |-> <<>>]
             ELSE LET f == FetchRows(self, sv, fetch_zoom, range.value[1], range.value[3],
                                     range.value[4], range.value[2], range.value[1],
                                     [tiles |-> <<>>, row |-> <<>>], <<>>)
                  IN IF f.out.status = "raise"
                     THEN [out |-> f.out, warns |-> v.warns, http |-> f.http]
                     ELSE [out |-> Compose(self, f.out.value, extent, zoom_level, adjusted,
                                           resample, resample_method),
                           warns |-> v.warns, http |-> f.http]

(***************************************************************************)
(* RasterTileServer.get_cartopy_source and the UnifiedTileSource it        *)
(* returns (lines 407-517).  The host renderer's GoogleTiles.get_image is  *)
(* outside the package: a host description fixes whether it raises, and    *)
(* the image it returns otherwise.                                         *)
(***************************************************************************)
\* The closure built by get_cartopy_source (lines 432-436)
GetCartopySource(self, supersample, resample_method) ==
  [made |-> TRUE, provider |-> self.provider, config |-> self.config,
   api_key |-> self.api_key, supersample |-> supersample,
   resample_filter |-> GetResampleFilter(resample_method)]

\* A variant of _image_url that scales the coordinates by 2^supersample also
\* where the fetch zoom was lowered to max_zoom.
ImageUrlScaledBeforeClamp(src, x, y, z) ==
  LET raised == IF src.supersample # 0 /\ src.supersample > 0
                THEN z + src.supersample ELSE z
      max_zoom == Get(src.config, "max_zoom", 18)
      fetch_z == IF raised > max_zoom THEN max_zoom ELSE raised
      scale == Pow2(Max(0, raised - z))
  IN FormatTemplate(src.config["url_template"], fetch_z, x * scale, y * scale,
                    IF Truthy(src.api_key) THEN src.api_key ELSE "")

\* UnifiedTileSource._image_url
ImageUrl(src, x, y, z) ==
  LET raised == IF src.supersample # 0 /\ src.supersample > 0
                THEN z + src.supersample ELSE z
      max_zoom == Get(src.config, "max_zoom", 18)
      fetch_z == IF raised > max_zoom THEN max_zoom ELSE raised
      scale == Pow2(Max(0, fetch_z - z))
  IN FormatTemplate(src.config["url_template"], fetch_z, x * scale, y * scale,
                    IF Truthy(src.api_key) THEN src.api_key ELSE "")

\* super().get_image(tile) of the host renderer
HostGetImage(host, x, y, z) ==
  IF host.raises THEN Raise([type |-> "Exception", kind |-> "HostFailed"])
  ELSE Return([img |-> host.image,
               extent |-> [by |-> "host", tile |-> <<x, y, z>>],
               origin |-> "lower"])

\* Lines 458-462 and 473-477: the host's image with the special handling.
HostPath(self, src, host, x, y, z) ==
  LET result == HostGetImage(host, x, y, z)
  IN IF result.status = "raise" THEN result
     ELSE Return([img |-> IF Truthy(Get(src.config, "special_handling", None))
                          THEN ApplySpecialHandling(self, result.value.img)
                          ELSE result.value.img,
                  extent |-> result.value.extent,
                  origin |-> result.value.origin])

\* A variant of the sub-tile loops that puts an opaque white tile in the place
\* of a sub-tile that failed.
FetchSubTilesWhiteBlank(self, sv, fetch_z, x, y, scale) ==
  LET fetched == [k \in 0..(scale * scale - 1) |->
                    FetchTile(self, sv, fetch_z, x * scale + (k % scale),
                              y * scale + (k \div scale))]
      tile(k) == IF fetched[k].out.status = "raise"
                 THEN ImageNew("RGBA", <<self.tile_size, self.tile_size>>, <<255, 255, 255, 255>>)
                 ELSE IF fetched[k].out.value.mode # "RGBA"
                 THEN Convert(fetched[k].out.value, "RGBA")
                 ELSE fetched[k].out.value
      RECURSIVE log(_)
      log(k) == IF k >= scale * scale THEN <<>> ELSE fetched[k].http \o log(k + 1)
  IN [tiles |-> [dy \in 1..scale |-> [dx \in 1..scale |-> tile((dy - 1) * scale + dx - 1)]],
      http |-> log(0)]

\* The sub-tile loops (lines 482-496): the grid of sub-tiles, row by row, with
\* a transparent tile for each one that failed, and the requests made in order.
FetchSubTiles(self, sv, fetch_z, x, y, scale) ==
  LET fetched == [k \in 0..(scale * scale - 1) |->
                    FetchTile(self, sv, fetch_z, x * scale + (k % scale),
                              y * scale + (k \div scale))]
      tile(k) == IF fetched[k].out.status = "raise"
                 THEN ImageNew("RGBA", <<self.tile_size, self.tile_size>>, Transparent)
                 ELSE IF fetched[k].out.value.mode # "RGBA"
                 THEN Convert(fetched[k].out.value, "RGBA")
                 ELSE fetched[k].out.value
      RECURSIVE log(_)
      log(k) == IF k >= scale * scale THEN <<>> ELSE fetched[k].http \o log(k + 1)
  IN [tiles |-> [dy \in 1..scale |-> [dx \in 1..scale |-> tile((dy - 1) * scale + dx - 1)]],
      http |-> log(0)]

\* RasterTileServer._calculate_tile_extent_web_mercator (lines 933-957), in
\* units of world_extent / 2^z: every bound is bound * world_extent / 2^z metres.
CalculateTileExtentWebMercator(x, y, z) ==
  [by |-> "analytic", z |-> z,
   min_x |-> 2 * x - Pow2(z), max_x |-> 2 * x + 2 - Pow2(z),
   min_y |-> Pow2(z) - 2 * y - 2, max_y |-> Pow2(z) - 2 * y]

\* The attributes of class BaseTileServer (base_tile_server.py lines 28-129)
BaseTileServerAttributes ==
  {"__init__", "get_url_template", "_build_tile_url", "__repr__",
   "get_available_providers", "get_provider_info", "calculate_scale_denominator"}

\* BaseTileServer._calculate_tile_extent_web_mercator(x, y, z) (line 512)
BaseCalculateTileExtent(x, y, z) ==
  IF "_calculate_tile_extent_web_mercator" \in BaseTileServerAttributes
  THEN Return(CalculateTileExtentWebMercator(x, y, z))
  ELSE Raise([type |-> "AttributeError", kind |-> "NoSuchAttribute",
              name |-> "_calculate_tile_extent_web_mercator"])

\* A variant of get_image that fetches at z + supersample also where that is
\* above max_zoom.
GetImageUnclamped(self, src, sv, host, x, y, z) ==
  IF ~(src.supersample # 0) \/ src.supersample <= 0
  THEN [out |-> HostPath(self, src, host, x, y, z), http |-> <<>>]
  ELSE LET max_zoom == Get(src.config, "max_zoom", 18)
           over == z + src.supersample > max_zoom
           actual_supersample == src.supersample
           fetch_z == z + src.supersample
       IN IF actual_supersample <= 0
          THEN [out |-> HostPath(self, src, host, x, y, z), http |-> <<>>]
          ELSE LET scale == Pow2(actual_supersample)
                   f == FetchSubTiles(self, sv, fetch_z, x, y, scale)
                   combined == IF f.tiles # <<>> /\ f.tiles[1] # <<>>
                               THEN CombineTiles(f.tiles, f.tiles[1][1].size[1])
                               ELSE Return(ImageNew("RGBA",
                                                    <<self.tile_size, self.tile_size>>,
                                                    Transparent))
                   resized == Resize(combined.value, <<self.tile_size, self.tile_size>>,
                                     src.resample_filter)
                   hosted == HostGetImage(host, x, y, z)
                   fallback == BaseCalculateTileExtent(x, y, z)
               IN IF combined.status = "raise" THEN [out |-> combined, http |-> f.http]
                  ELSE IF hosted.status = "return"
                  THEN [out |-> Return([img |-> resized, extent |-> hosted.value.extent,
                                        origin |-> hosted.value.origin]),
                        http |-> f.http]
                  ELSE IF fallback.status = "raise"
                  THEN [out |-> fallback, http |-> f.http]
                  ELSE [out |-> Return([img |-> resized, extent |-> fallback.value,
                                        origin |-> "upper"]),
                        http |-> f.http]

\* UnifiedTileSource.get_image; yields the outcome and the requests made
GetImage(self, src, sv, host, x, y, z) ==
  IF ~(src.supersample # 0) \/ src.supersample <= 0
  THEN [out |-> HostPath(self, src, host, x, y, z), http |-> <<>>]
  ELSE LET max_zoom == Get(src.config, "max_zoom", 18)
           over == z + src.supersample > max_zoom
           actual_supersample == IF over THEN max_zoom - z ELSE src.supersample
           fetch_z == IF over THEN max_zoom ELSE z + src.supersample
       IN IF actual_supersample <= 0
          THEN [out |-> HostPath(self, src, host, x, y, z), http |-> <<>>]
          ELSE LET scale == Pow2(actual_supersample)
                   f == FetchSubTiles(self, sv, fetch_z, x, y, scale)
                   combined == IF f.tiles # <<>> /\ f.tiles[1] # <<>>
                               THEN CombineTiles(f.tiles, f.tiles[1][1].size[1])
                               ELSE Return(ImageNew("RGBA",
                                                    <<self.tile_size, self.tile_size>>,
                                                    Transparent))
                   resized == Resize(combined.value, <<self.tile_size, self.tile_size>>,
                                     src.resample_filter)
                   hosted == HostGetImage(host, x, y, z)
                   fallback == BaseCalculateTileExtent(x, y, z)
               IN IF combined.status = "raise" THEN [out |-> combined, http |-> f.http]
                  ELSE IF hosted.status = "return"
                  THEN [out |-> Return([img |-> resized, extent |-> hosted.value.extent,
                                        origin |-> hosted.value.origin]),
                        http |-> f.http]
                  ELSE IF fallback.status = "raise"
                  THEN [out |-> fallback, http |-> f.http]
                  ELSE [out |-> Return([img |-> resized, extent |-> fallback.value,
                                        origin |-> "upper"]),
                        http |-> f.http]

(***************************************************************************)
(* Inputs of the calls.                                                    *)
(***************************************************************************)
MaxZoomInput == 21
MaxSupersample == 5
MaxExtentSupersample == 2
MaxTileEdge == 2
MaxGrid == 2

\* Identifiers that are no key of the registry ("" is the empty string).
UnknownIds == {"", "Bogus.Provider", "esri.terrain"}
(***************************************************************************)
(* RasterTileServer.suggest_optimal_zoom (lines 620-664) with              *)
(* calculate_scale_denominator (base_tile_server.py lines 110-129) and     *)
(* calculate_zoom_level (lines 894-915).  Floating-point values are        *)
(* modelled with a mantissa of FloatBits bits: a positive value is         *)
(* m * 2^e with 2^(FloatBits-1) <= m < 2^FloatBits.  degree_to_meter and   *)
(* the spatial reference are outside the package: the metres per degree    *)
(* is an input, and EPSG:3857 has one metre per unit.  Extents are in      *)
(* units of 0.0001 degree.                                                 *)
(***************************************************************************)
FloatBits == 15

RECURSIVE Normalise(_, _)
Normalise(m, e) ==
  IF m >= Pow2(FloatBits) THEN Normalise(m \div 2, e + 1)
  ELSE IF m < Pow2(FloatBits - 1) THEN Normalise(m * 2, e - 1)
  ELSE [m |-> m, e |-> e]

\* float(n) for an integer n > 0
Float(n) == Normalise(n, 0)

\* a * b and a / b of positive floats
FMul(a, b) == Normalise(a.m * b.m, a.e + b.e)
FDiv(a, b) == Normalise((a.m * Pow2(FloatBits)) \div b.m, a.e - b.e - FloatBits)

\* int(math.log2(v)) of a positive float: the logarithm truncated toward zero
IntLog2(v) ==
  LET floor == v.e + FloatBits - 1
  IN IF floor >= 0 \/ v.m = Pow2(FloatBits - 1) THEN floor ELSE floor + 1

\* BaseTileServer.calculate_scale_denominator(domain_boundary, image_size, dpi)
\* The divisions by dpi are Python's and raise at dpi = 0; the division by the
\* image size in inches is numpy's and yields an infinity or a NaN at 0.
CalculateScaleDenominator(domain_boundary, image_size, dpi, meters_per_degree) ==
  LET domain_width == domain_boundary[2] - domain_boundary[1]
      domain_height == domain_boundary[4] - domain_boundary[3]
      domain == Max(domain_width, domain_height)
      pixels == Max(image_size[1], image_size[2])
  IN IF dpi = 0 THEN Raise([type |-> "ZeroDivisionError", kind |-> "DivisionByZero"])
     ELSE IF pixels = 0
     THEN Return([kind |-> IF domain > 0 THEN "inf"
                           ELSE IF domain = 0 THEN "nan" ELSE "-inf"])
     ELSE IF domain = 0 THEN Return([kind |-> "zero"])
     ELSE IF domain < 0 THEN Return([kind |-> "negative"])
     ELSE Return([kind |-> "positive",
                  f |-> FDiv(FMul(FMul(FDiv(Float(domain), Float(10000)),
                                       Float(meters_per_degree)),
                                  FDiv(Float(393701), Float(10000))),
                             FDiv(Float(pixels), Float(dpi)))])

\* RasterTileServer.calculate_zoom_level(scale_denominator, pProjection, dpi,
\* tile_width, tile_height), the projection given by its metres per unit
CalculateZoomLevel(scale_denominator, meters_per_unit, dpi, tile_width, tile_height) ==
  CASE scale_denominator.kind \in {"nan", "inf", "-inf", "negative"} ->
         Raise([type |-> "ValueError", kind |-> "MathDomain"])
    [] scale_denominator.kind = "zero" ->
         Raise([type |-> "OverflowError", kind |-> "IntOfInfinity"])
    [] OTHER ->
         LET pixel_span == FDiv(FDiv(FMul(scale_denominator.f,
                                          FDiv(Float(28), Float(100000))),
                                     Float(meters_per_unit)),
                                FDiv(Float(dpi), Float(96)))
             tile_span_x == FMul(Float(tile_width), pixel_span)
             tile_span_y == FMul(Float(tile_height), pixel_span)
             tile_span == IF tile_width >= tile_height THEN tile_span_x ELSE tile_span_y
         IN Return(IntLog2(FDiv(Float(40075017), tile_span)))

\* quality_adjustments.get(quality_preference.lower(), 0) (lines 644-650)
QualityAdjustment(quality_preference) ==
  CASE Lower(quality_preference) = "fast" -> 0 - 1
    [] Lower(quality_preference) = "balanced" -> 0
    [] Lower(quality_preference) = "quality" -> 2
    [] OTHER -> 0

\* A variant of suggest_optimal_zoom that returns the adjusted zoom as it is.
SuggestOptimalZoomUnclamped(self, extent, output_dpi, output_size, quality_preference, meters_per_degree) ==
  LET scale_denominator ==
        CalculateScaleDenominator(extent, output_size, output_dpi, meters_per_degree)
      base_zoom == CalculateZoomLevel(scale_denominator.value, 1, output_dpi,
                                      self.tile_size, self.tile_size)
      adjustment == QualityAdjustment(quality_preference)
                    + (IF self.tile_size >= 512 THEN 1 ELSE 0)
  IN IF scale_denominator.status = "raise" THEN scale_denominator
     ELSE IF base_zoom.status = "raise" THEN base_zoom
     ELSE Return(base_zoom.value + adjustment)

\* RasterTileServer.suggest_optimal_zoom
SuggestOptimalZoom(self, extent, output_dpi, output_size, quality_preference, meters_per_degree) ==
  LET scale_denominator ==
        CalculateScaleDenominator(extent, output_size, output_dpi, meters_per_degree)
      base_zoom == CalculateZoomLevel(scale_denominator.value, 1, output_dpi,
                                      self.tile_size, self.tile_size)
      adjustment == QualityAdjustment(quality_preference)
                    + (IF self.tile_size >= 512 THEN 1 ELSE 0)
      suggested_zoom == base_zoom.value + adjustment
      min_zoom == Get(self.config, "min_zoom", 0)
      max_zoom == Get(self.config, "max_zoom", 18)
  IN IF scale_denominator.status = "raise" THEN scale_denominator
     ELSE IF base_zoom.status = "raise" THEN base_zoom
     ELSE Return(Max(min_zoom, Min(max_zoom, suggested_zoom)))

ProviderInputs == ProviderIds \cup UnknownIds
KeyInputs == {None, "", "ARGKEY"}
EnvInputs == {None, "", "ENVKEY"}

ZoomInputs == (0 - 1)..MaxZoomInput
SupersampleInputs == (0 - 1)..MaxSupersample

RGBColors == {<<0, 0, 0>>, <<255, 255, 255>>, <<1, 1, 1>>, <<0, 0, 1>>, <<0, 1, 0>>, <<1, 0, 0>>}
Alphas == {0, 128, 255}
PixelsOf(mode) ==
  IF mode = "RGB" THEN RGBColors
  ELSE {<<c[1], c[2], c[3], a>> : c \in RGBColors, a \in Alphas}

White(mode) == IF mode = "RGB" THEN <<255, 255, 255>> ELSE <<255, 255, 255, 255>>
Black(mode) == IF mode = "RGB" THEN <<0, 0, 0>> ELSE <<0, 0, 0, 255>>

\* Decoded payloads: one-colour tiles of the given edge, and two-pixel images.
FillImages(edge) ==
  UNION {{ImageFill(mode, <<edge, edge>>, c) : c \in {White(mode), Black(mode)}} :
         mode \in {"RGB", "RGBA"}}
PairImages ==
  UNION {{ImageData(mode, <<2, 1>>, (<<0, 0>> :> p) @@ (<<1, 0>> :> q)) :
            p \in PixelsOf(mode), q \in {White(mode), Black(mode)}} :
         mode \in {"RGB", "RGBA"}}

Statuses == {204, 401, 404, 500}

Serving(img) == [refuse |-> "none", status |-> 200,
                 content |-> [decodable |-> TRUE, image |-> img]]
Garbage == [refuse |-> "none", status |-> 200, content |-> [decodable |-> FALSE]]
Refusing(pattern, status) == [refuse |-> pattern, status |-> status,
                              content |-> [decodable |-> TRUE,
                                           image |-> ImageFill("RGB", <<256, 256>>, <<255, 255, 255>>)]]
Unreachable == [refuse |-> "unreachable", status |-> 0, content |-> [decodable |-> FALSE]]

\* Services a single-tile fetch meets.
TileServers(edge) ==
  {Serving(img) : img \in FillImages(edge) \cup PairImages}
  \cup {Garbage, Unreachable}
  \cup {Refusing(p, s) : p \in {"all", "odd_x", "even_x", "odd_y"}, s \in Statuses}

TileInputs == {<<0, 0, 0>>, <<10, 163, 395>>}

(***************************************************************************)
(* The state machine.                                                      *)
(***************************************************************************)
Init ==
  /\ registry = PROVIDERS
  /\ environ \in EnvInputs
  /\ client = NoClient
  /\ source = NoSource
  /\ last = NoCall
  /\ warns = <<>>
  /\ http = <<>>
  /\ pc = "start"

\* server = RasterTileServer(provider, api_key)
Construct ==
  /\ pc = "start"
  /\ \E provider \in ProviderInputs, api_key \in KeyInputs :
    LET r == RasterInit(registry, environ, provider, api_key)
    IN /\ pc' = IF r.out.status = "return" THEN "ready" ELSE "done"
       /\ client' = IF r.out.status = "return" THEN r.out.value ELSE client
       /\ last' = [op |-> "construct",
                   args |-> [provider |-> provider, api_key |-> api_key], out |-> r.out]
       /\ warns' = r.warns
       /\ http' = <<>>
       /\ UNCHANGED <<registry, environ, source>>

\* RasterTileServer.get_provider_info(provider)
CallGetProviderInfo ==
  /\ pc = "start"
  /\ pc' = "done"
  /\ \E provider \in ProviderInputs \cup {None} :
    /\ last' = [op |-> "get_provider_info", args |-> [provider |-> provider],
                out |-> GetProviderInfo(registry, provider),
                ids |-> ProviderInfoObjects(registry, provider)]
    /\ warns' = <<>>
    /\ http' = <<>>
    /\ UNCHANGED <<registry, environ, client, source>>

\* RasterTileServer.get_available_providers()
CallGetAvailableProviders ==
  /\ pc = "start"
  /\ pc' = "done"
  /\ last' = [op |-> "get_available_providers", args |-> <<>>,
              out |-> Return(GetAvailableProviders(RegistryKeys(registry)))]
  /\ warns' = <<>>
  /\ http' = <<>>
  /\ UNCHANGED <<registry, environ, client, source>>

\* What the caller writes into a dictionary it was handed.
MutateKeys == {"tile_size", "attribution"}
MutateEntries == {ProviderOrder[1], ProviderOrder[Len(ProviderOrder)]}
MutateValue(key) == IF key = "tile_size" THEN 1 ELSE "changed"
Written(d, key, how) ==
  IF how = "set" THEN [d EXCEPT ![key] = MutateValue(key)]
  ELSE [k \in DOMAIN d \ {key} |-> d[k]]

\* The caller changes the dictionary the last get_provider_info call returned:
\* info[key] = value or del info[key] on a provider's dictionary (directly, or
\* as info[entry] of the listing), or info.pop(entry) on the listing.  A write
\* reaches the registry exactly when the object written is the registry's own.
MutateInfo ==
  /\ pc = "done"
  /\ last.op = "get_provider_info"
  /\ last.out.status = "return"
  /\ pc' = "mutated"
  /\ \E entry \in MutateEntries, key \in MutateKeys, how \in {"set", "del", "pop"} :
       LET one == Truthy(last.args.provider)
           p == IF one THEN last.args.provider ELSE entry
           d == IF one THEN last.out.value ELSE last.out.value[entry]
           id == IF one THEN last.ids.self ELSE last.ids.entries[entry]
           nd == Written(d, key, how)
           value == IF one THEN nd
                    ELSE IF how = "pop"
                    THEN [k \in DOMAIN last.out.value \ {entry} |-> last.out.value[k]]
                    ELSE [last.out.value EXCEPT ![entry] = nd]
       IN /\ one => (how # "pop" /\ entry = ProviderOrder[1])
          /\ registry' = IF how = "pop"
                         THEN IF last.ids.self = RegistryObject
                              THEN [k \in DOMAIN registry \ {entry} |-> registry[k]]
                              ELSE registry
                         ELSE IF id = RegistryEntry(p)
                              THEN [registry EXCEPT ![p] = nd]
                              ELSE registry
          /\ last' = [op |-> "mutate",
                      args |-> [provider |-> last.args.provider, entry |-> p,
                                key |-> key, how |-> how],
                      out |-> Return(value), ids |-> last.ids]
  /\ warns' = <<>>
  /\ http' = <<>>
  /\ UNCHANGED <<environ, client, source>>

\* A further use of the class in the same process: the caller's objects are
\* gone, the class attribute _PROVIDERS and the environment are what they were
\* left as.
Restart ==
  /\ pc \in {"done", "mutated"}
  /\ pc' = "start"
  /\ client' = NoClient
  /\ source' = NoSource
  /\ last' = NoCall
  /\ warns' = <<>>
  /\ http' = <<>>
  /\ UNCHANGED <<registry, environ>>

YearInputs == {None, "", "2024"}
ClockYears == {2026, 2027}

\* server.get_license_info(year, include_url)
CallGetLicenseInfo ==
  /\ pc = "ready"
  /\ pc' = "done"
  /\ \E year \in YearInputs, include_url \in BOOLEAN, now \in ClockYears :
       last' = [op |-> "get_license_info",
                args |-> [year |-> year, include_url |-> include_url, now |-> now],
                out |-> GetLicenseInfo(client, now, year, include_url)]
  /\ warns' = <<>>
  /\ http' = <<>>
  /\ UNCHANGED <<registry, environ, client, source>>

\* server._validate_zoom_level(zoom_level, supersample)
CallValidateZoomLevel ==
  /\ pc = "ready"
  /\ pc' = "done"
  /\ \E z \in ZoomInputs, s \in SupersampleInputs :
       LET r == ValidateZoomLevel(client, z, s)
       IN /\ last' = [op |-> "validate_zoom_level",
                      args |-> [zoom_level |-> z, supersample |-> s], out |-> r.out]
          /\ warns' = r.warns
          /\ http' = <<>>
          /\ UNCHANGED <<registry, environ, client, source>>

\* server.fetch_tile(z, x, y) against a service
CallFetchTile ==
  /\ pc = "ready"
  /\ pc' = "done"
  /\ \E t \in TileInputs, sv \in TileServers(client.tile_size) :
       LET r == FetchTile(client, sv, t[1], t[2], t[3])
       IN /\ last' = [op |-> "fetch_tile",
                      args |-> [z |-> t[1], x |-> t[2], y |-> t[3], sv |-> sv], out |-> r.out]
          /\ warns' = <<>>
          /\ http' = r.http
          /\ UNCHANGED <<registry, environ, client, source>>

\* server._apply_special_handling(img)
CallApplySpecialHandling ==
  /\ pc = "ready"
  /\ pc' = "done"
  /\ \E img \in FillImages(client.tile_size) \cup PairImages :
       /\ last' = [op |-> "apply_special_handling", args |-> [img |-> img],
                   out |-> Return(ApplySpecialHandling(client, img))]
       /\ warns' = <<>>
       /\ http' = <<>>
       /\ UNCHANGED <<registry, environ, client, source>>

\* Tile number i of a grid: every pixel names the tile and its own position.
GridTile(i, edge, mode) ==
  ImageData(mode, <<edge, edge>>,
            [c \in Coords(<<edge, edge>>) |->
               IF mode = "RGB" THEN <<i, c[1], c[2]>> ELSE <<i, c[1], c[2], 128>>])

\* A grid of rows lists; cell k has edge e1, the others e0; the last row
\* has `extra` cells more than the others.
GridInput(rows, cols, e0, k, e1, mode, extra) ==
  [r \in 1..rows |->
     [c \in 1..(IF r = rows THEN cols + extra ELSE cols) |->
        GridTile((r - 1) * (cols + 1) + c,
                 IF (r - 1) * (cols + 1) + c = k THEN e1 ELSE e0, mode)]]

GridInputs ==
  {GridInput(rows, cols, e0, k, e1, mode, extra) :
     rows \in 0..MaxGrid, cols \in 0..MaxGrid, e0 \in 1..MaxTileEdge,
     k \in 1..(MaxGrid * (MaxGrid + 1)), e1 \in 1..MaxTileEdge,
     mode \in {"RGB", "RGBA"}, extra \in {0 - 1, 0, 1}}

\* RasterTileServer.combine_tiles(tiles, tile_size)
CallCombineTiles ==
  /\ pc = "start"
  /\ pc' = "done"
  /\ \E tiles \in {g \in GridInputs : \A r \in 1..Len(g) : Len(g[r]) <= MaxGrid},
     tile_size \in 1..MaxTileEdge :
    /\ last' = [op |-> "combine_tiles", args |-> [tiles |-> tiles, tile_size |-> tile_size],
                out |-> CombineTiles(tiles, tile_size)]
    /\ warns' = <<>>
    /\ http' = <<>>
    /\ UNCHANGED <<registry, environ, client, source>>

\* Extents <<minx, maxx, miny, maxy>> in units of 0.0001 degree.
SanFrancisco == <<0 - 1225000, 0 - 1223000, 377000, 378000>>
AroundOrigin == <<0 - 1, 1, 0 - 1, 1>>
InsideOneTile == <<100001, 100002, 100001, 100002>>
\* Inverted extents: east and west swapped, north and south swapped.
InvertedLongitudes == <<1, 0 - 1, 0 - 1, 1>>
InvertedLatitudes == <<0 - 1, 1, 1, 0 - 1>>
ExtentInputs ==
  {SanFrancisco, AroundOrigin, InsideOneTile, InvertedLongitudes, InvertedLatitudes}

MaxTiles == 9

ExtentZooms(self) ==
  {0 - 1, 0, 10, self.config.max_zoom - 1, self.config.max_zoom, self.config.max_zoom + 1}

ExtentServers(edge) ==
  {Serving(ImageFill("RGB", <<edge, edge>>, <<255, 255, 255>>)),
   Serving(ImageFill("RGBA", <<edge, edge>>, <<0, 0, 0, 255>>)),
   Serving(ImageFill("RGB", <<2, 2>>, <<1, 1, 1>>)),
   Garbage, Unreachable}
  \cup {Refusing(p, 404) : p \in {"all", "odd_x", "even_x", "odd_y"}}

ResampleInputs ==
  {<<FALSE, "lanczos">>, <<TRUE, "lanczos">>, <<TRUE, "bicubic">>, <<TRUE, "BILINEAR">>,
   <<TRUE, "Nearest">>, <<TRUE, "cubic">>}

\* The number of tiles of the extent at the zoom (0 when there is none).
TileCount(extent, zoom) ==
  LET r == ExtentToTileIndices(extent, zoom)
  IN IF r.status = "raise" THEN 0
     ELSE Max(0, r.value[3] - r.value[1] + 1) * Max(0, r.value[4] - r.value[2] + 1)

\* server.fetch_tiles_for_extent(extent, zoom_level, supersample, resample, resample_method)
CallFetchTilesForExtent ==
  /\ pc = "ready"
  /\ pc' = "done"
  /\ \E extent \in ExtentInputs, z \in ExtentZooms(client), s \in 0..MaxExtentSupersample,
        rs \in ResampleInputs, sv \in ExtentServers(client.tile_size) :
       /\ ValidateZoomLevel(client, z, s).out.status = "return" =>
            TileCount(extent, ValidateZoomLevel(client, z, s).out.value[1]) <= MaxTiles
       /\ \E r \in {FetchTilesForExtent(client, sv, extent, z, s, rs[1], rs[2])} :
            /\ last' = [op |-> "fetch_tiles_for_extent",
                        args |-> [extent |-> extent, zoom_level |-> z, supersample |-> s,
                                  resample |-> rs[1], resample_method |-> rs[2], sv |-> sv],
                        out |-> r.out]
            /\ warns' = r.warns
            /\ http' = r.http
            /\ UNCHANGED <<registry, environ, client, source>>

MaxTileZoom == 22

\* Coordinates of the projection tables, in units of 0.0001 degree.
LonInputs == DOMAIN LonFraction
LatInputs == DOMAIN MercatorFraction
TileZoomInputs == {0 - 1, 0, 1, 2, 10, 15, MaxTileZoom}

\* RasterTileServer.lonlat_to_tile(lon, lat, zoom)
CallLonLatToTile ==
  /\ pc = "start"
  /\ pc' = "done"
  /\ \E lon \in LonInputs, lat \in LatInputs, zoom \in (0 - 1)..MaxTileZoom :
       /\ last' = [op |-> "lonlat_to_tile",
                   args |-> [lon |-> lon, lat |-> lat, zoom |-> zoom],
                   out |-> LonLatToTile(lon, lat, zoom)]
       /\ warns' = <<>>
       /\ http' = <<>>
       /\ UNCHANGED <<registry, environ, client, source>>

\* RasterTileServer.extent_to_tile_indices(extent, zoom)
CallExtentToTileIndices ==
  /\ pc = "start"
  /\ pc' = "done"
  /\ \E minx \in LonInputs, maxx \in LonInputs, miny \in LatInputs, maxy \in LatInputs,
        zoom \in TileZoomInputs :
       /\ (minx < maxx /\ miny < maxy) \/ (minx = 0 /\ miny = 0)
       /\ last' = [op |-> "extent_to_tile_indices",
                   args |-> [extent |-> <<minx, maxx, miny, maxy>>, zoom |-> zoom],
                   out |-> ExtentToTileIndices(<<minx, maxx, miny, maxy>>, zoom)]
       /\ warns' = <<>>
       /\ http' = <<>>
       /\ UNCHANGED <<registry, environ, client, source>>

MaxAdapterSupersample == 2

\* Tiles (x, y, z) the host renderer asks the source for.
AdapterTiles(self) ==
  {<<0, 0, 0>>, <<163, 395, 10>>, <<1, 2, self.config.max_zoom - 1>>,
   <<1, 1, self.config.max_zoom>>, <<0, 0, self.config.max_zoom + 1>>}

\* Services the sub-tile fetches of the source meet.
AdapterServers(edge) ==
  {Serving(ImageFill("RGB", <<edge, edge>>, <<255, 255, 255>>)),
   Serving(ImageFill("RGBA", <<edge, edge>>, <<0, 0, 0, 255>>)),
   Serving(ImageFill("RGB", <<2, 2>>, <<1, 1, 1>>)),
   Garbage, Unreachable}
  \cup {Refusing(p, 404) :
          p \in {"all", "odd_x", "even_xy", "diagonal"}}

\* Host renderers: one whose get_image raises, and one that returns an image.
HostInputs(edge) ==
  {[raises |-> TRUE],
   [raises |-> FALSE, image |-> ImageFill("RGBA", <<edge, edge>>, <<0, 0, 0, 255>>)]}

\* source = server.get_cartopy_source(supersample, resample_method)
CallGetCartopySource ==
  /\ pc = "ready"
  /\ pc' = "adapted"
  /\ \E s \in (0 - 1)..MaxAdapterSupersample, m \in {"lanczos", "Nearest"} :
       /\ source' = GetCartopySource(client, s, m)
       /\ last' = [op |-> "get_cartopy_source",
                   args |-> [supersample |-> s, resample_method |-> m],
                   out |-> Return(GetCartopySource(client, s, m))]
       /\ warns' = <<>>
       /\ http' = <<>>
       /\ UNCHANGED <<registry, environ, client>>

\* source._image_url((x, y, z))
CallImageUrl ==
  /\ pc = "adapted"
  /\ pc' = "done"
  /\ \E t \in AdapterTiles(client) :
       /\ last' = [op |-> "_image_url", args |-> [x |-> t[1], y |-> t[2], z |-> t[3]],
                   out |-> Return(ImageUrl(source, t[1], t[2], t[3]))]
       /\ warns' = <<>>
       /\ http' = <<>>
       /\ UNCHANGED <<registry, environ, client, source>>

\* source.get_image((x, y, z)) against a service and a host renderer
CallGetImage ==
  /\ pc = "adapted"
  /\ pc' = "done"
  /\ \E t \in AdapterTiles(client), sv \in AdapterServers(client.tile_size),
        host \in HostInputs(client.tile_size) :
       \E r \in {GetImage(client, source, sv, host, t[1], t[2], t[3])} :
          /\ last' = [op |-> "get_image",
                      args |-> [x |-> t[1], y |-> t[2], z |-> t[3], sv |-> sv, host |-> host],
                      out |-> r.out]
          /\ warns' = <<>>
          /\ http' = r.http
          /\ UNCHANGED <<registry, environ, client, source>>

\* Extents asked about: the test's 4 x 2 degrees, the world, 0.0001 degree, a
\* point, and an inverted extent.
SuggestExtents ==
  {<<1150000, 1190000, 360000, 380000>>, <<0 - 1800000, 1800000, 0 - 850000, 850000>>,
   <<0, 1, 0, 1>>, <<0, 0, 0, 0>>, <<10000, 0, 10000, 0>>}
SuggestDpis == {0, 96, 150}
SuggestSizes == {<<0, 0>>, <<16, 16>>, <<1200, 1200>>}
SuggestQualities == {"fast", "balanced", "quality", "Quality", "best"}
\* degree_to_meter(1.0, latitude) at the equator and near 37 degrees
MetersPerDegree == {111195, 88000}

\* server.suggest_optimal_zoom(extent, output_dpi, output_size, quality_preference)
CallSuggestOptimalZoom ==
  /\ pc = "ready"
  /\ pc' = "done"
  /\ \E extent \in SuggestExtents, dpi \in SuggestDpis, size \in SuggestSizes,
        quality \in SuggestQualities, mpd \in MetersPerDegree :
       last' = [op |-> "suggest_optimal_zoom",
                args |-> [extent |-> extent, output_dpi |-> dpi, output_size |-> size,
                          quality_preference |-> quality, meters_per_degree |-> mpd],
                out |-> SuggestOptimalZoom(client, extent, dpi, size, quality, mpd)]
  /\ warns' = <<>>
  /\ http' = <<>>
  /\ UNCHANGED <<registry, environ, client, source>>

Next ==
  \/ Construct
  \/ CallGetCartopySource
  \/ CallImageUrl
  \/ CallGetImage
  \/ CallLonLatToTile
  \/ CallExtentToTileIndices
  \/ CallGetProviderInfo
  \/ CallValidateZoomLevel
  \/ CallFetchTile
  \/ CallApplySpecialHandling
  \/ CallCombineTiles
  \/ CallFetchTilesForExtent
  \/ CallGetAvailableProviders
  \/ MutateInfo
  \/ Restart
  \/ CallGetLicenseInfo
  \/ CallSuggestOptimalZoom

Spec == Init /\ [][Next]_vars

\* The registry over successive uses of the class.
NextRuntime ==
  \/ Construct
  \/ CallGetProviderInfo
  \/ CallGetAvailableProviders
  \/ MutateInfo
  \/ CallFetchTile
  \/ Restart
SpecRuntime == Init /\ [][NextRuntime]_vars

\* The zoom suggestion.
NextSuggest == Construct \/ CallSuggestOptimalZoom
SpecSuggest == Init /\ [][NextSuggest]_vars

\* Attribution strings.
NextLicense == Construct \/ CallGetLicenseInfo
SpecLicense == Init /\ [][NextLicense]_vars

\* The registry and client construction alone.
NextRegistry == Construct \/ CallGetProviderInfo
SpecRegistry == Init /\ [][NextRegistry]_vars

\* The zoom and supersample validator.
NextValidator == Construct \/ CallValidateZoomLevel
SpecValidator == Init /\ [][NextValidator]_vars

\* The tile fetcher and its post-processing.
NextFetcher == Construct \/ CallFetchTile \/ CallApplySpecialHandling
SpecFetcher == Init /\ [][NextFetcher]_vars

\* The compositor.
NextCompositor == CallCombineTiles
SpecCompositor == Init /\ [][NextCompositor]_vars

\* Both callers of combine_tiles.
NextBarrier ==
  \/ Construct
  \/ CallFetchTilesForExtent
  \/ CallGetCartopySource
  \/ CallGetImage
SpecBarrier == Init /\ [][NextBarrier]_vars

\* Whole-extent acquisition.
NextExtent == Construct \/ CallFetchTilesForExtent
SpecExtent == Init /\ [][NextExtent]_vars

\* The tile source handed to the host renderer.
NextAdapter == Construct \/ CallGetCartopySource \/ CallImageUrl \/ CallGetImage
SpecAdapter == Init /\ [][NextAdapter]_vars

\* The tile coordinate math alone.
NextTiles == CallLonLatToTile \/ CallExtentToTileIndices
SpecTiles == Init /\ [][NextTiles]_vars

\* Whole-extent acquisition together with the validator it starts with.
NextPlan == Construct \/ CallValidateZoomLevel \/ CallFetchTilesForExtent
SpecPlan == Init /\ [][NextPlan]_vars

(***************************************************************************)
(* Properties.                                                             *)
(***************************************************************************)
\* The registry's zoom bounds of the client's provider.
MinZoomOf(c) == PROVIDERS[c.provider].min_zoom
MaxZoomOf(c) == PROVIDERS[c.provider].max_zoom

Validated == last.op = "validate_zoom_level"
ZoomInRange == MinZoomOf(client) <= last.args.zoom_level
               /\ last.args.zoom_level <= MaxZoomOf(client)

\* C1: whatever the provider and the supersample, _validate_zoom_level raises a
\* zoom-out-of-range error when the requested zoom is below min_zoom or above
\* max_zoom; it returns no (fetch zoom, supersample) pair and coerces nothing.
C1_OutOfRangeZoomRaises ==
  (Validated /\ ~ZoomInRange) =>
    /\ last.out.status = "raise"
    /\ last.out.error.type = "ValueError"
    /\ last.out.error.kind = "ZoomOutOfRange"
    /\ last.out.error.zoom = last.args.zoom_level
    /\ warns = <<>>

\* C1 witness: zoom 14 on a provider whose max_zoom is 13, with a supersample, raised.
C1_Witness ==
  /\ Validated /\ MaxZoomOf(client) = 13
  /\ last.args.zoom_level = 14 /\ last.args.supersample = 2
  /\ last.out.status = "raise"

\* The effective supersample the validator is specified to return.
EffectiveSupersample(z, s, max_zoom) ==
  IF z + s <= max_zoom THEN s ELSE Max(0, max_zoom - z)

\* C2: for min_zoom <= z <= max_zoom and s >= 0 the validator returns (z + s', s')
\* with s' = s when z + s <= max_zoom and s' = max(0, max_zoom - z) otherwise;
\* z = 10, s = 5 against max_zoom 13 gives (13, 3).
C2_ValidatorResult ==
  (Validated /\ ZoomInRange /\ last.args.supersample >= 0) =>
    LET z == last.args.zoom_level
        e == EffectiveSupersample(z, last.args.supersample, MaxZoomOf(client))
    IN /\ last.out.status = "return"
       /\ last.out.value = <<z + e, e>>
       /\ (z = 10 /\ last.args.supersample = 5 /\ MaxZoomOf(client) = 13)
            => last.out.value = <<13, 3>>

\* C2 witness: the validation of (10, 5) against max_zoom 13 has returned.
C2_Witness ==
  /\ Validated /\ MaxZoomOf(client) = 13
  /\ last.args.zoom_level = 10 /\ last.args.supersample = 5
  /\ last.out.status = "return"

\* C3: a successful validation of a supersample s >= 0 yields fetch zoom =
\* requested zoom + effective supersample, 0 <= effective <= s and
\* min_zoom <= requested <= fetch zoom <= max_zoom; and fetch_tiles_for_extent
\* requests no tile at a zoom above the provider's max_zoom.
C3_FetchPlanWithinBounds ==
  /\ (Validated /\ last.out.status = "return" /\ last.args.supersample >= 0) =>
       LET z == last.args.zoom_level
           fetch_zoom == last.out.value[1]
           effective == last.out.value[2]
       IN /\ fetch_zoom = z + effective
          /\ 0 <= effective /\ effective <= last.args.supersample
          /\ MinZoomOf(client) <= z /\ z <= fetch_zoom
          /\ fetch_zoom <= MaxZoomOf(client)
  /\ last.op = "fetch_tiles_for_extent" =>
       \A i \in 1..Len(http) :
         /\ http[i].z <= MaxZoomOf(client)
         /\ http[i].z >= last.args.zoom_level
         /\ http[i].z <= last.args.zoom_level + last.args.supersample

\* C3 witness: an extent fetch at the provider's max_zoom with a supersample
\* requested has issued tile requests.
C3_Witness ==
  /\ last.op = "fetch_tiles_for_extent"
  /\ last.args.zoom_level = MaxZoomOf(client) /\ last.args.supersample = 2
  /\ Len(http) >= 4

\* C4: with the base zoom in range, a supersample that would exceed max_zoom is
\* no error: the validator returns, and it emits the downgrade warning exactly
\* when z + s > max_zoom.
C4_DowngradeIsWarningNotError ==
  (Validated /\ ZoomInRange) =>
    /\ last.out.status = "return"
    /\ (warns # <<>>) <=> (last.args.zoom_level + last.args.supersample > MaxZoomOf(client))
    /\ warns # <<>> =>
         /\ Len(warns) = 1
         /\ warns[1].category = "UserWarning"
         /\ warns[1].kind = "SupersampleReduced"

\* C4 witness: a validation whose supersample exceeded the ceiling returned
\* with the warning.
C4_Witness ==
  /\ Validated /\ ZoomInRange
  /\ last.args.zoom_level + last.args.supersample > MaxZoomOf(client)
  /\ last.out.status = "return" /\ Len(warns) = 1

\* An identifier or credential that is a non-empty string.
Supplied(v) == v # None /\ v # ""

\* C5: constructing a client, or calling get_provider_info, with an identifier
\* that is no key of the registry fails with the unknown-provider error; no
\* client is created and no provider's profile is returned in its place.
C5_UnknownProviderRejected ==
  /\ (last.op = "construct" /\ last.args.provider \notin DOMAIN PROVIDERS) =>
       /\ last.out.status = "raise"
       /\ last.out.error.kind = "UnknownProvider"
       /\ client = NoClient
  /\ (last.op = "get_provider_info" /\ last.args.provider # None
       /\ last.args.provider \notin DOMAIN PROVIDERS) =>
       /\ last.out.status = "raise"
       /\ last.out.error.kind = "UnknownProvider"

\* C5, the part the code satisfies: construction with any identifier outside the
\* registry, and get_provider_info with a non-empty one, raise the error.
C5_NonEmptyUnknownProviderRejected ==
  /\ (last.op = "construct" /\ last.args.provider \notin DOMAIN PROVIDERS) =>
       /\ last.out.status = "raise"
       /\ last.out.error.kind = "UnknownProvider"
       /\ client = NoClient
  /\ (last.op = "get_provider_info" /\ Supplied(last.args.provider)
       /\ last.args.provider \notin DOMAIN PROVIDERS) =>
       /\ last.out.status = "raise"
       /\ last.out.error.kind = "UnknownProvider"

\* The client is bound to a provider that requires a credential.
NeedsKey == client # NoClient /\ PROVIDERS[client.provider].requires_api_key

\* C6: fetch_tile on a client whose provider requires a credential and whose
\* api_key is absent fails with a missing-credential error before any request
\* is sent; the construction of that client did not fail.
C6_MissingCredentialFailsAtFetch ==
  (last.op = "fetch_tile" /\ NeedsKey /\ ~Supplied(client.api_key)) =>
    /\ last.out.status = "raise"
    /\ last.out.error.kind = "MissingCredential"
    /\ http = <<>>

\* C6, what the code does instead: the request is sent with an empty api_key.
C6_RequestSentWithEmptyKey ==
  (last.op = "fetch_tile" /\ NeedsKey /\ ~Supplied(client.api_key)) =>
    /\ Len(http) = 1
    /\ client.provider = "Stadia.StamenTerrain" /\ last.args.z = 0 =>
         http[1].url = "https://tiles.stadiamaps.com/tiles/stamen_terrain/0/0/0@2x.png?api_key="

\* C7: for a provider that requires a credential the client's api_key is the
\* api_key argument when one is supplied, whatever the environment holds, and
\* otherwise the value of the environment variable; when both are absent the
\* construction returns, the api_key is absent and one warning is emitted.
C7_CredentialResolution ==
  (last.op = "construct" /\ last.args.provider \in DOMAIN PROVIDERS
   /\ PROVIDERS[last.args.provider].requires_api_key) =>
    /\ last.out.status = "return"
    /\ client = last.out.value
    /\ Supplied(last.args.api_key) =>
         client.api_key = last.args.api_key /\ warns = <<>>
    /\ (~Supplied(last.args.api_key) /\ Supplied(environ)) =>
         client.api_key = environ /\ warns = <<>>
    /\ (~Supplied(last.args.api_key) /\ ~Supplied(environ)) =>
         /\ ~Supplied(client.api_key)
         /\ Len(warns) = 1
         /\ warns[1].category = "UserWarning"
         /\ warns[1].kind = "MissingApiKey"

\* C7 witness: an explicit key was given while the environment held another.
C7_Witness ==
  /\ last.op = "construct" /\ NeedsKey
  /\ last.args.api_key = "ARGKEY" /\ environ = "ENVKEY"
  /\ client.api_key = "ARGKEY"

\* The response the service gave to the last fetch_tile call.
LastResponse == Respond(last.args.sv, last.args.z, last.args.x, last.args.y)

\* C8: fetch_tile returns an image only for a response with status 200 and a
\* decodable body; a response with any other status makes it raise an error
\* that carries that status and the requested URL; a 200 response whose body
\* is not a decodable image makes it raise a decode error.
C8_FetchTileOutcome ==
  last.op = "fetch_tile" =>
    /\ last.out.status \in {"return", "raise"}
    /\ last.out.status = "return" =>
         /\ LastResponse.kind = "response"
         /\ LastResponse.status_code = 200
         /\ LastResponse.content.decodable
    /\ (LastResponse.kind = "response" /\ LastResponse.status_code # 200) =>
         /\ last.out.status = "raise"
         /\ last.out.error.kind = "FetchFailed"
         /\ last.out.error.status = LastResponse.status_code
         /\ Len(http) = 1
         /\ last.out.error.url = http[1].url
         /\ <<http[1].z, http[1].x, http[1].y>> = <<last.args.z, last.args.x, last.args.y>>
         /\ (client.provider = "OSM.Standard" /\ last.args.z = 10) =>
              last.out.error.url = "https://tile.openstreetmap.org/10/163/395.png"
    /\ (LastResponse.kind = "response" /\ LastResponse.status_code = 200
        /\ ~LastResponse.content.decodable) =>
         /\ last.out.status = "raise"
         /\ last.out.error.kind = "DecodeFailed"

\* C8 witness: a 404 response with an image in its body was turned into an error.
C8_Witness ==
  /\ last.op = "fetch_tile"
  /\ LastResponse.kind = "response"
  /\ LastResponse.status_code = 404
  /\ LastResponse.content.decodable
  /\ last.out.status = "raise"
  /\ last.out.error.status = 404

\* The pixel of img at c with the alpha an RGB pixel gets in RGBA.
OpaquePixel(img, c) ==
  LET p == PixelAt(img, c[1], c[2])
  IN IF img.mode = "RGB" THEN <<p[1], p[2], p[3], 255>> ELSE p

\* The corners of an image and the pixels next to its origin.
SampleCoords(size) ==
  Coords(<<Min(size[1], 2), Min(size[2], 2)>>) \cup {<<size[1] - 1, size[2] - 1>>}

\* res is img with exactly the pixels of R = G = B = 0 made (0, 0, 0, 0).
ChromaKeyed(img, res) ==
  /\ res.mode = "RGBA"
  /\ res.size = img.size
  /\ \A c \in SampleCoords(img.size) :
       LET p == OpaquePixel(img, c)
           q == PixelAt(res, c[1], c[2])
       IN IF p[1] = 0 /\ p[2] = 0 /\ p[3] = 0 THEN q = <<0, 0, 0, 0>> ELSE q = p

\* C9: the chroma key turns every pixel with R = G = B = 0 into (0, 0, 0, 0) and
\* leaves every other pixel as it was; fetch_tile applies it to the decoded
\* tile of a provider whose special_handling is make_black_transparent and
\* returns the decoded tile untouched for every other provider.
C9_ChromaKey ==
  /\ last.op = "apply_special_handling" =>
       IF PROVIDERS[client.provider].special_handling = "make_black_transparent"
       THEN ChromaKeyed(last.args.img, last.out.value)
       ELSE last.out.value = last.args.img
  /\ (last.op = "fetch_tile" /\ last.out.status = "return") =>
       IF PROVIDERS[client.provider].special_handling = "make_black_transparent"
       THEN ChromaKeyed(LastResponse.content.image, last.out.value)
       ELSE last.out.value = LastResponse.content.image

\* C9 witness: Esri.Hydro fetched a tile of a near-black and a black pixel.
C9_Witness ==
  /\ last.op = "fetch_tile" /\ last.out.status = "return"
  /\ client.provider = "Esri.Hydro"
  /\ LastResponse.content.image.mode = "RGB"
  /\ LastResponse.content.image.size = <<2, 1>>
  /\ PixelAt(LastResponse.content.image, 0, 0) = <<1, 1, 1>>
  /\ PixelAt(LastResponse.content.image, 1, 0) = <<0, 0, 0>>
  /\ PixelAt(last.out.value, 0, 0) = <<1, 1, 1, 255>>
  /\ PixelAt(last.out.value, 1, 0) = <<0, 0, 0, 0>>

\* A grid whose rows all have the length of the first.
Rectangular(tiles) == \A r \in 1..Len(tiles) : Len(tiles[r]) = Len(tiles[1])

GridRows(tiles) == Len(tiles)
GridCols(tiles) == IF Len(tiles) > 0 THEN Len(tiles[1]) ELSE 0

\* The result is one fully transparent tile_size x tile_size RGBA image.
BlankTile(out, tile_size) ==
  /\ out.status = "return"
  /\ out.value.mode = "RGBA"
  /\ out.value.size = <<tile_size, tile_size>>
  /\ \A c \in Coords(out.value.size) : PixelAt(out.value, c[1], c[2]) = <<0, 0, 0, 0>>

\* The canvas has the size of the grid and shows tile [row][col] from
\* (col * tile_size, row * tile_size) on, as far as the tile and its cell reach.
CanvasOfGrid(tiles, tile_size, out) ==
  /\ out.status = "return"
  /\ out.value.mode = "RGBA"
  /\ out.value.size = <<GridCols(tiles) * tile_size, GridRows(tiles) * tile_size>>
  /\ Len(out.value.pastes) = GridRows(tiles) * GridCols(tiles)
  /\ \A row \in 0..(GridRows(tiles) - 1), col \in 0..(GridCols(tiles) - 1) :
       LET tile == tiles[row + 1][col + 1]
       IN \A d \in Coords(<<Min(tile.size[1], tile_size), Min(tile.size[2], tile_size)>>) :
            PixelAt(out.value, col * tile_size + d[1], row * tile_size + d[2])
              = OpaquePixel(tile, d)

\* Every pixel a paste wrote lies in the cell of the pasted tile.
WritesStayInCells(tiles, tile_size, canvas) ==
  \A i \in 1..Len(canvas.pastes) : \A c \in Coords(canvas.size) :
    Covers(canvas, i, c[1], c[2]) =>
      /\ c[1] \div tile_size = (i - 1) % GridCols(tiles)
      /\ c[2] \div tile_size = (i - 1) \div GridCols(tiles)

\* No tile is wider or higher than tile_size.
TilesFit(tiles, tile_size) ==
  \A r \in 1..Len(tiles) : \A c \in 1..Len(tiles[r]) :
    tiles[r][c].size[1] <= tile_size /\ tiles[r][c].size[2] <= tile_size

\* C10 as stated: on a rows x cols grid, rows, cols >= 1, combine_tiles returns
\* an RGBA canvas of (cols * tile_size) x (rows * tile_size) pixels with tile
\* [row][col] pasted at (col * tile_size, row * tile_size) and no pixel of a
\* tile written into another tile's cell; with rows = 0 or cols = 0 it
\* returns one fully transparent tile_size x tile_size image.
C10_CombineTilesCells ==
  (last.op = "combine_tiles" /\ Rectangular(last.args.tiles)) =>
    LET tiles == last.args.tiles
        tile_size == last.args.tile_size
    IN IF GridRows(tiles) = 0 \/ GridCols(tiles) = 0
       THEN BlankTile(last.out, tile_size)
       ELSE /\ CanvasOfGrid(tiles, tile_size, last.out)
            /\ WritesStayInCells(tiles, tile_size, last.out.value)

\* C10 amended: the same, with the writes of a tile confined to its own cell
\* when no tile of the grid is wider or higher than tile_size.
C10_CombineTilesCellsFitting ==
  (last.op = "combine_tiles" /\ Rectangular(last.args.tiles)) =>
    LET tiles == last.args.tiles
        tile_size == last.args.tile_size
    IN IF GridRows(tiles) = 0 \/ GridCols(tiles) = 0
       THEN BlankTile(last.out, tile_size)
       ELSE /\ CanvasOfGrid(tiles, tile_size, last.out)
            /\ TilesFit(tiles, tile_size) =>
                 WritesStayInCells(tiles, tile_size, last.out.value)

\* C10 witness: a 2 x 2 grid of tiles of edge 2 combined with tile_size 2.
C10_Witness ==
  /\ last.op = "combine_tiles" /\ last.out.status = "return"
  /\ Rectangular(last.args.tiles)
  /\ GridRows(last.args.tiles) = 2 /\ GridCols(last.args.tiles) = 2
  /\ last.args.tile_size = 2
  /\ \A r \in 1..2, c \in 1..2 : last.args.tiles[r][c].size = <<2, 2>>
  /\ last.out.value.size = <<4, 4>>
  /\ PixelAt(last.out.value, 3, 2) = OpaquePixel(last.args.tiles[2][2], <<1, 0>>)

\* The last call was fetch_tiles_for_extent and it returned an image.
ExtentFetched == last.op = "fetch_tiles_for_extent" /\ last.out.status = "return"

\* The supersample in effect in the last fetch_tiles_for_extent call.
EffectiveOfCall ==
  EffectiveSupersample(last.args.zoom_level, last.args.supersample, MaxZoomOf(client))

\* The columns and rows of the extent's tile range at the zoom.
GridAt(extent, zoom) ==
  LET r == ExtentToTileIndices(extent, zoom).value
  IN <<r[3] - r[1] + 1, r[4] - r[2] + 1>>

\* The service serves tiles of the edge the provider's profile states.
ServesProfileEdge(sv, c) ==
  /\ sv.content.decodable
  /\ sv.content.image.size = <<PROVIDERS[c.provider].tile_size, PROVIDERS[c.provider].tile_size>>

\* The same extent fetched at the requested zoom with no enhancement.
DirectFetch ==
  FetchTilesForExtent(client, last.args.sv, last.args.extent, last.args.zoom_level,
                      0, FALSE, "lanczos").out

\* C11: with an effective supersample > 0, fetch_tiles_for_extent returns an
\* image of (columns at the requested zoom * tile_size) by (rows at the
\* requested zoom * tile_size) pixels, the size of a direct fetch of the extent
\* at the requested zoom, however many tiles were fetched at the fetch zoom.
C11_SupersampleOutputSize ==
  (ExtentFetched /\ EffectiveOfCall > 0) =>
    LET grid == GridAt(last.args.extent, last.args.zoom_level)
        edge == PROVIDERS[client.provider].tile_size
    IN /\ last.out.value.size = <<grid[1] * edge, grid[2] * edge>>
       /\ ServesProfileEdge(last.args.sv, client) =>
            /\ last.args.sv.refuse = "none" => DirectFetch.status = "return"
            /\ DirectFetch.status = "return" =>
                 DirectFetch.value.size = last.out.value.size

\* C11 witness: San Francisco at zoom 10 is 2 x 2 tiles; with supersample 2 nine
\* tiles of zoom 12 were fetched and the result is 512 x 512.
C11_Witness ==
  /\ ExtentFetched /\ EffectiveOfCall = 2
  /\ last.args.extent = SanFrancisco /\ last.args.zoom_level = 10
  /\ PROVIDERS[client.provider].tile_size = 256
  /\ Len(http) = 9
  /\ last.out.value.size = <<512, 512>>
  /\ DirectFetch.status = "return" /\ DirectFetch.value.size = <<512, 512>>

\* The number of resize operations the image went through after compositing.
RECURSIVE ResizeDepth(_)
ResizeDepth(img) ==
  IF img.base.k = "resize" THEN 1 + ResizeDepth(img.base.src) ELSE 0

\* The composite of the tiles the service serves for the extent at the zoom.
CompositeAt(c, sv, extent, zoom) ==
  LET r == ExtentToTileIndices(extent, zoom).value
      tiles == [row \in 1..(r[4] - r[2] + 1) |->
                  [col \in 1..(r[3] - r[1] + 1) |->
                     FetchTile(c, sv, zoom, r[1] + col - 1, r[2] + row - 1).out.value]]
  IN CombineTiles(tiles, IF tiles # <<>> /\ tiles[1] # <<>>
                         THEN tiles[1][1].size[1] ELSE c.tile_size).value

\* C12: a fetch_tiles_for_extent call runs at most one enhancement: the
\* supersample downsample iff the effective supersample is > 0, the smoothing
\* up-then-down resample iff the effective supersample is 0 and resample is
\* set; with supersample 0 and resample unset the composite is returned as it
\* was built.
C12_OneEnhancementMode ==
  ExtentFetched =>
    LET img == last.out.value
        fetch_zoom == last.args.zoom_level + EffectiveOfCall
        composite == CompositeAt(client, last.args.sv, last.args.extent, fetch_zoom)
    IN /\ ResizeDepth(img) <= 2
       /\ EffectiveOfCall > 0 =>
            /\ ResizeDepth(img) = 1
            /\ img.base.filter = "lanczos"
            /\ img.base.src = composite
       /\ (EffectiveOfCall = 0 /\ last.args.resample) =>
            /\ ResizeDepth(img) = 2
            /\ img.base.src.base.filter = "bicubic"
            /\ img.base.src.base.src = composite
            /\ img.size = composite.size
       /\ (EffectiveOfCall = 0 /\ ~last.args.resample) =>
            /\ ResizeDepth(img) = 0
            /\ img = composite
       /\ (last.args.supersample = 0 /\ ~last.args.resample) =>
            /\ img.size = composite.size
            /\ \A c \in SampleCoords(img.size) :
                 PixelAt(img, c[1], c[2]) = PixelAt(composite, c[1], c[2])

\* C12 witness: a supersample of 2 asked at the provider's max_zoom is reduced
\* to 0, and with resample set the smoothing ran alone.
C12_Witness ==
  /\ ExtentFetched
  /\ last.args.supersample = 2 /\ EffectiveOfCall = 0 /\ last.args.resample
  /\ ResizeDepth(last.out.value) = 2
  /\ last.out.value.base.src.size[1] = (last.out.value.size[1] * 102) \div 100

\* C13: for an extent with minx < maxx and miny < maxy, extent_to_tile_indices
\* returns (x_min, y_min, x_max, y_max) with x_min <= x_max and y_min <= y_max,
\* (x_min, y_max) being the tile of the (minx, miny) corner and (x_max, y_min)
\* the tile of the (maxx, maxy) corner; it returns whenever both latitudes
\* are above -90 and at most 90 degrees.
C13_TileRangeOrdered ==
  (last.op = "extent_to_tile_indices"
   /\ last.args.extent[1] < last.args.extent[2]
   /\ last.args.extent[3] < last.args.extent[4]) =>
    LET e == last.args.extent
        z == last.args.zoom
        r == last.out.value
    IN /\ (0 - 900000 < e[3] /\ e[4] <= 900000) => last.out.status = "return"
       /\ last.out.status = "return" =>
            /\ r[1] <= r[3]
            /\ r[2] <= r[4]
            /\ <<r[1], r[4]>> = LonLatToTile(e[1], e[3], z).value
            /\ <<r[3], r[2]>> = LonLatToTile(e[2], e[4], z).value

\* C13 witness: the San Francisco extent at zoom 10 is columns 163..164 and
\* rows 395..396.
C13_Witness ==
  /\ last.op = "extent_to_tile_indices"
  /\ last.args.extent = SanFrancisco /\ last.args.zoom = 10
  /\ last.out = Return(<<163, 395, 164, 396>>)

\* The last call was lonlat_to_tile.
TileAsked == last.op = "lonlat_to_tile"

\* C14: for a longitude in [-180, 180], a latitude with |lat| < 85 degrees and a
\* zoom >= 0, lonlat_to_tile returns x and y with 0 <= x < 2^zoom and
\* 0 <= y < 2^zoom.
C14_TileIndexInRange ==
  (TileAsked /\ last.args.zoom >= 0
   /\ 0 - 1800000 <= last.args.lon /\ last.args.lon <= 1800000
   /\ 0 - 850000 < last.args.lat /\ last.args.lat < 850000) =>
    /\ last.out.status = "return"
    /\ 0 <= last.out.value[1] /\ last.out.value[1] < Pow2(last.args.zoom)
    /\ 0 <= last.out.value[2] /\ last.out.value[2] < Pow2(last.args.zoom)

\* C14, what the code satisfies: the range holds west of 180 degrees, and the
\* longitude 180 itself gives the column 2^zoom.
C14_TileIndexInRangeWestOf180 ==
  (TileAsked /\ last.args.zoom >= 0
   /\ 0 - 1800000 <= last.args.lon /\ last.args.lon <= 1800000
   /\ 0 - 850000 < last.args.lat /\ last.args.lat < 850000) =>
    /\ last.out.status = "return"
    /\ 0 <= last.out.value[2] /\ last.out.value[2] < Pow2(last.args.zoom)
    /\ IF last.args.lon = 1800000
       THEN last.out.value[1] = Pow2(last.args.zoom)
       ELSE 0 <= last.out.value[1] /\ last.out.value[1] < Pow2(last.args.zoom)

\* C15: lonlat_to_tile with |lat| >= 90 degrees raises; it returns no tile
\* index pair for such a latitude.
C15_PolarLatitudeRejected ==
  (TileAsked /\ (last.args.lat >= 900000 \/ last.args.lat <= 0 - 900000)) =>
    last.out.status = "raise"

\* C15, what the code does: it raises for -90 and beyond +-90, and for +90 it
\* returns a negative row.
C15_NorthPoleReturned ==
  (TileAsked /\ (last.args.lat >= 900000 \/ last.args.lat <= 0 - 900000)) =>
    IF last.args.lat = 900000
    THEN last.out.status = "return" /\ last.out.value[2] < 0
    ELSE last.out.status = "raise" /\ last.out.error.type = "ValueError"

\* The provider template of the client formatted at a tile, with its key.
TemplateAt(c, z, x, y) ==
  FormatTemplate(PROVIDERS[c.provider].url_template, z, x, y,
                 IF Supplied(c.api_key) THEN c.api_key ELSE "")

\* C16: _image_url(x, y, z) formats the provider template at (z, x, y) when no
\* supersampling is configured; with supersample > 0 it formats it at
\* fetchZ = min(z + supersample, max_zoom) and the coordinates
\* (x * 2^(fetchZ - z), y * 2^(fetchZ - z)).
C16_ImageUrl ==
  last.op = "_image_url" =>
    LET x == last.args.x
        y == last.args.y
        z == last.args.z
        fetchZ == Min(z + source.supersample, MaxZoomOf(client))
    IN /\ source.supersample <= 0 => last.out.value = TemplateAt(client, z, x, y)
       /\ (source.supersample > 0 /\ fetchZ >= z) =>
            last.out.value = TemplateAt(client, fetchZ, x * Pow2(fetchZ - z),
                                        y * Pow2(fetchZ - z))

\* C16, what the code satisfies: the claim for the tiles whose zoom is at most
\* max_zoom; above max_zoom the template is formatted at (max_zoom, x, y).
C16_ImageUrlUpToMaxZoom ==
  last.op = "_image_url" =>
    LET x == last.args.x
        y == last.args.y
        z == last.args.z
        fetchZ == Min(z + source.supersample, MaxZoomOf(client))
    IN /\ (source.supersample <= 0 /\ z <= MaxZoomOf(client)) =>
            last.out.value = TemplateAt(client, z, x, y)
       /\ (source.supersample > 0 /\ z <= MaxZoomOf(client)) =>
            last.out.value = TemplateAt(client, fetchZ, x * Pow2(fetchZ - z),
                                        y * Pow2(fetchZ - z))
       /\ z > MaxZoomOf(client) =>
            last.out.value = TemplateAt(client, MaxZoomOf(client), x, y)
       /\ (client.provider = "Esri.Terrain" /\ z = 10 /\ source.supersample = 1) =>
            last.out.value = "https://server.arcgisonline.com/ArcGIS/rest/services/World_Terrain_Base/MapServer/tile/11/790/326"

\* The supersample in effect for the tile of the last get_image call.
AdapterEffective ==
  IF source.supersample <= 0 THEN 0
  ELSE Min(source.supersample, MaxZoomOf(client) - last.args.z)

\* The last call was get_image on its supersample path.
SupersampledImageAsked == last.op = "get_image" /\ AdapterEffective > 0

\* The fetch of sub-tile (dx, dy) of the last get_image call.
SubTileFetch(dx, dy) ==
  FetchTile(client, last.args.sv, last.args.z + AdapterEffective,
            last.args.x * Pow2(AdapterEffective) + dx,
            last.args.y * Pow2(AdapterEffective) + dy).out

\* C17: on the supersample path of get_image, whichever sub-tile fetches fail
\* (the top-left one included), get_image returns an image of tile_size x
\* tile_size, downsampled from a composite in which the cell of every failed
\* sub-tile is fully transparent and the cell of every other sub-tile starts
\* with the fetched sub-tile; the host renderer supplies the extent.
C17_SubTileFailuresTolerated ==
  (SupersampledImageAsked /\ ~last.args.host.raises) =>
    /\ last.out.status = "return"
    /\ LET img == last.out.value.img
           edge == PROVIDERS[client.provider].tile_size
           scale == Pow2(AdapterEffective)
           composite == img.base.src
           cell == composite.size[1] \div scale
       IN /\ img.mode = "RGBA"
          /\ img.size = <<edge, edge>>
          /\ img.base.k = "resize"
          /\ composite.size = <<scale * cell, scale * cell>>
          /\ Len(http) = scale * scale
          /\ \A dx \in 0..(scale - 1), dy \in 0..(scale - 1) :
               IF SubTileFetch(dx, dy).status = "raise"
               THEN \A c \in {0, cell - 1} \X {0, cell - 1} :
                      PixelAt(composite, dx * cell + c[1], dy * cell + c[2]) = <<0, 0, 0, 0>>
               ELSE PixelAt(composite, dx * cell, dy * cell)
                      = OpaquePixel(SubTileFetch(dx, dy).value, <<0, 0>>)

\* C17 witness: of the four sub-tiles only the top-left one failed; its cell is
\* transparent and the cell to its right shows the white tile that was fetched.
C17_Witness ==
  /\ SupersampledImageAsked /\ AdapterEffective = 1
  /\ ~last.args.host.raises
  /\ last.args.sv.refuse = "even_xy"
  /\ last.out.status = "return"
  /\ Len(http) = 4
  /\ SubTileFetch(0, 0).status = "raise"
  /\ last.out.value.img.size = <<256, 256>>
  /\ PixelAt(last.out.value.img.base.src, 0, 0) = <<0, 0, 0, 0>>
  /\ PixelAt(last.out.value.img.base.src, 256, 0) = <<255, 255, 255, 255>>

\* C18: when, on the supersample path of get_image, the host renderer's
\* get_image raises, get_image still returns the composite, with the analytic
\* Web-Mercator extent of (x, y, z): min_x = -W + x * w, max_x = min_x + w,
\* max_y = W - y * w, min_y = max_y - w, w = 2 W / 2^z (here in units of W / 2^z).
C18_AnalyticExtentFallback ==
  (SupersampledImageAsked /\ last.args.host.raises) =>
    /\ last.out.status = "return"
    /\ last.out.value.img.size
         = <<PROVIDERS[client.provider].tile_size, PROVIDERS[client.provider].tile_size>>
    /\ LET e == last.out.value.extent
           n == Pow2(last.args.z)
       IN /\ e.min_x = 2 * last.args.x - n
          /\ e.max_x = e.min_x + 2
          /\ e.max_y = n - 2 * last.args.y
          /\ e.min_y = e.max_y - 2

\* C18, what the code does: the fallback names a method BaseTileServer does not
\* have, and get_image raises AttributeError after all sub-tiles were fetched.
C18_FallbackRaises ==
  (SupersampledImageAsked /\ last.args.host.raises) =>
    /\ last.out.status = "raise"
    /\ last.out.error.type = "AttributeError"
    /\ Len(http) = Pow2(AdapterEffective) * Pow2(AdapterEffective)

\* C19: the registry is never changed at run time: after any sequence of
\* constructions, get_provider_info calls (for one provider or for all),
\* writes to the dictionaries those calls returned, and fetches, every entry
\* holds the values it had at start, get_provider_info returns those values and
\* get_available_providers returns the same identifiers in the same order.
C19_RegistryNeverChanges ==
  /\ registry = PROVIDERS
  /\ RegistryKeys(registry) = ProviderOrder
  /\ (last.op = "get_available_providers") => last.out = Return(ProviderOrder)
  /\ (last.op = "get_provider_info" /\ last.out.status = "return") =>
       last.out.value = IF Truthy(last.args.provider)
                        THEN PROVIDERS[last.args.provider]
                        ELSE PROVIDERS

\* C19 witness: the caller changed the tile size in the dictionary that
\* get_provider_info returned for a provider; the registry's entry kept its own.
C19_Witness ==
  /\ pc = "mutated"
  /\ last.op = "mutate"
  /\ last.args.provider = ProviderOrder[1]
  /\ last.args.key = "tile_size"
  /\ last.args.how = "set"
  /\ last.out.value.tile_size = 1
  /\ registry[ProviderOrder[1]].tile_size = PROVIDERS[ProviderOrder[1]].tile_size
  /\ registry[ProviderOrder[1]].tile_size # 1

\* C19 witness of the listing: an entry of the dictionary returned for all
\* providers was removed by the caller, and the registry still holds it.
C19_WitnessListing ==
  /\ pc = "mutated"
  /\ last.op = "mutate"
  /\ ~Truthy(last.args.provider)
  /\ last.args.how = "pop"
  /\ last.args.entry \notin DOMAIN last.out.value
  /\ last.args.entry \in DOMAIN registry

\* The year text the last get_license_info call puts between the brackets.
YearShown ==
  IF last.args.year = None
  THEN IF last.args.now = 2026 THEN <<"2", "0", "2", "6">> ELSE <<"2", "0", "2", "7">>
  ELSE Chars(last.args.year)

\* The license string of provider p for the arguments of the last call.
LicenseOf(p) ==
  GetLicenseInfo([config |-> PROVIDERS[p]], last.args.now, last.args.year,
                 last.args.include_url).value

\* C20: get_license_info(year, include_url) returns the provider's attribution
\* text followed by " (<year>)", and after it ". License: <license_url>"
\* exactly when include_url is true and the profile's license URL is not empty;
\* the string holds no " | ", so that the strings of k providers joined with
\* " | " split into exactly k parts.
C20_LicenseString ==
  (last.op = "get_license_info") =>
    LET profile == PROVIDERS[client.provider]
        head == Chars(profile.attribution) \o <<" ", "(">> \o YearShown \o <<")">>
        tail == <<".", " ", "L", "i", "c", "e", "n", "s", "e", ":", " ">>
                  \o Chars(profile.license_url)
        text == last.out.value
    IN /\ last.out.status = "return"
       /\ SubSeq(text, 1, Len(head)) = head
       /\ IF last.args.include_url /\ profile.license_url # ""
          THEN text = head \o tail
          ELSE text = head
       /\ SplitPipedCount(text) = 1
       /\ SplitPipedCount(JoinPiped(<<text>>)) = 1
       /\ \A p \in ProviderIds :
            /\ SplitPipedCount(JoinPiped(<<text, LicenseOf(p)>>)) = 2
            /\ SplitPipedCount(JoinPiped(<<LicenseOf(p), text, LicenseOf(p)>>)) = 3

\* C20 witness: the license string of Esri.Terrain with the URL asked for and
\* the year left to the clock.
C20_Witness ==
  /\ last.op = "get_license_info"
  /\ client.provider = "Esri.Terrain"
  /\ last.args.year = None
  /\ last.args.now = 2026
  /\ last.args.include_url
  /\ last.out.value
       = Chars("Source: Esri, Earthstar Geographics") \o <<" ", "(", "2", "0", "2", "6", ")">>
           \o <<".", " ", "L", "i", "c", "e", "n", "s", "e", ":", " ">>
           \o Chars("https://www.esri.com/en-us/legal/terms/full-master-agreement")

\* The fetch zoom of the last fetch_tiles_for_extent call.
FetchZoomOfCall == last.args.zoom_level + EffectiveOfCall

\* The last call was fetch_tiles_for_extent and got as far as the fetch loops.
FetchLoopsEntered ==
  /\ last.op = "fetch_tiles_for_extent"
  /\ ValidateZoomLevel(client, last.args.zoom_level, last.args.supersample).out.status
       = "return"
  /\ ExtentToTileIndices(last.args.extent, FetchZoomOfCall).status = "return"

\* The columns and the cells of a tile range r (0 for an empty range), and its
\* i-th cell in row-major order.
RangeCols(r) == Max(0, r[3] - r[1] + 1)
RangeCells(r) == RangeCols(r) * Max(0, r[4] - r[2] + 1)
RangeCell(r, i) ==
  [x |-> r[1] + ((i - 1) % RangeCols(r)), y |-> r[2] + ((i - 1) \div RangeCols(r))]

\* The tile range of the last fetch_tiles_for_extent call at its fetch zoom.
FetchRange == ExtentToTileIndices(last.args.extent, FetchZoomOfCall).value

\* The outcome of fetching cell i of the range from the service of the last call.
FetchOfCell(i) ==
  FetchTile(client, last.args.sv, FetchZoomOfCall,
            RangeCell(FetchRange, i).x, RangeCell(FetchRange, i).y).out

\* C21: within one fetch_tiles_for_extent call the tiles of the range are
\* requested in row-major order, each at most once and none twice after a
\* failure; the first tile fetch that fails ends the call: its error is the
\* call's outcome, no later tile is requested and no composite is returned.
C21_NoRetryNoPartialResult ==
  FetchLoopsEntered =>
    LET z == FetchZoomOfCall
        r == FetchRange
        cells == RangeCells(r)
        outcome == [i \in 1..cells |->
                      FetchTile(client, last.args.sv, z, RangeCell(r, i).x,
                                RangeCell(r, i).y).out]
        failing == {i \in 1..cells : outcome[i].status = "raise"}
    IN /\ Len(http) <= cells
       /\ \A i \in 1..Len(http) :
            /\ http[i].z = z
            /\ http[i].x = RangeCell(r, i).x
            /\ http[i].y = RangeCell(r, i).y
       /\ \A i \in 1..Len(http), j \in 1..Len(http) :
            (i # j) => <<http[i].x, http[i].y>> # <<http[j].x, http[j].y>>
       /\ IF failing = {}
          THEN Len(http) = cells
          ELSE LET first == CHOOSE i \in failing : \A j \in failing : i <= j
               IN /\ Len(http) = first
                  /\ last.out = outcome[first]
                  /\ last.out.status = "raise"

\* C21 witness: nine tiles were due, the first was fetched, the second failed
\* and ended the call after two requests.
C21_Witness ==
  /\ FetchLoopsEntered
  /\ RangeCells(FetchRange) = 9
  /\ FetchOfCell(1).status = "return"
  /\ FetchOfCell(2).status = "raise"
  /\ FetchOfCell(3).status = "return"
  /\ Len(http) = 2
  /\ last.out.status = "raise"
  /\ last.out.error.kind = "FetchFailed"

\* The composite an image was resized from (the image itself if it never was).
RECURSIVE Unresized(_)
Unresized(img) == IF img.base.k = "resize" THEN Unresized(img.base.src) ELSE img

\* The pastes of a composite canvas fill a grid of cols columns, row by row,
\* with the images slot(1), slot(2), ... in cells of edge pixels: one paste
\* per slot, none missing, every row of the same length.
GridPasted(canvas, cols, cells, edge, slots) ==
  /\ Len(canvas.pastes) = cells
  /\ \A i \in 1..cells :
       /\ canvas.pastes[i].im = slots[i]
       /\ canvas.pastes[i].at = <<((i - 1) % cols) * edge, ((i - 1) \div cols) * edge>>

\* The image the lazy adapter puts into the slot of sub-tile (dx, dy).
SubTileSlot(dx, dy) ==
  LET f == SubTileFetch(dx, dy)
  IN IF f.status = "raise"
     THEN ImageNew("RGBA", <<client.tile_size, client.tile_size>>, Transparent)
     ELSE IF f.value.mode # "RGBA" THEN Convert(f.value, "RGBA") ELSE f.value

\* C22: combine_tiles works on complete grids only.  A composite returned by
\* fetch_tiles_for_extent holds one paste for each tile of the range, each the
\* tile that was fetched, and when a fetch of the range fails no composite is
\* made: the call ends with that fetch's error.  A composite returned by the
\* lazy adapter holds one paste for each of the scale * scale sub-tiles, the
\* fetched sub-tile or the blank that stands for it.
C22_CombineAfterAllSlots ==
  /\ FetchLoopsEntered =>
       LET z == FetchZoomOfCall
           r == FetchRange
           cells == RangeCells(r)
           outcome == [i \in 1..cells |->
                         FetchTile(client, last.args.sv, z, RangeCell(r, i).x,
                                   RangeCell(r, i).y).out]
       IN IF \E i \in 1..cells : outcome[i].status = "raise"
          THEN /\ last.out.status = "raise"
               /\ last.out.error.type # "IndexError"
               /\ \E i \in 1..cells : last.out = outcome[i]
          ELSE /\ Len(http) = cells
               /\ last.out.status = "return" =>
                    GridPasted(Unresized(last.out.value), RangeCols(r), cells,
                               IF cells > 0 THEN outcome[1].value.size[1]
                               ELSE client.tile_size,
                               [i \in 1..cells |-> outcome[i].value])
  /\ (SupersampledImageAsked /\ last.out.status = "return") =>
       LET scale == Pow2(AdapterEffective)
           slots == [i \in 1..(scale * scale) |->
                       SubTileSlot((i - 1) % scale, (i - 1) \div scale)]
       IN /\ Len(http) = scale * scale
          /\ GridPasted(Unresized(last.out.value.img), scale, scale * scale,
                        slots[1].size[1], slots)

\* C22 witness: all nine tiles of the range were fetched and the composite
\* holds nine pastes.
C22_Witness ==
  /\ ExtentFetched
  /\ RangeCells(FetchRange) = 9
  /\ Len(http) = 9
  /\ Len(Unresized(last.out.value).pastes) = 9
  /\ Unresized(last.out.value).pastes[9].im = FetchOfCell(9).value

\* C22 witness of the lazy adapter: of sixteen sub-tiles those on the
\* diagonal failed, and the composite holds sixteen pastes.
C22_WitnessAdapter ==
  /\ SupersampledImageAsked /\ AdapterEffective = 2
  /\ last.out.status = "return"
  /\ last.args.sv.refuse = "diagonal"
  /\ Len(http) = 16
  /\ Len(Unresized(last.out.value.img).pastes) = 16
  /\ SubTileFetch(0, 0).status = "raise"
  /\ SubTileFetch(1, 0).status = "return"

\* C23: get_image of a source with supersample > 0, for a tile with z <=
\* max_zoom, works with s' = min(supersample, max_zoom - z).  With s' > 0 it
\* requests exactly the 2^s' x 2^s' sub-tiles (z + s', x * 2^s' + dx,
\* y * 2^s' + dy), row by row, and, the host renderer supplying the extent,
\* returns an image of tile_size x tile_size; with s' = 0 it requests nothing
\* itself and returns what the source without supersample returns for (x, y, z).
C23_EffectiveSupersampleOfTile ==
  (last.op = "get_image" /\ source.supersample > 0
   /\ last.args.z <= MaxZoomOf(client)) =>
    LET s == Min(source.supersample, MaxZoomOf(client) - last.args.z)
        scale == Pow2(s)
        edge == PROVIDERS[client.provider].tile_size
    IN IF s > 0
       THEN /\ Len(http) = scale * scale
            /\ \A dx \in 0..(scale - 1), dy \in 0..(scale - 1) :
                 LET q == http[dy * scale + dx + 1]
                 IN /\ q.z = last.args.z + s
                    /\ q.x = last.args.x * scale + dx
                    /\ q.y = last.args.y * scale + dy
            /\ ~last.args.host.raises =>
                 /\ last.out.status = "return"
                 /\ last.out.value.img.size = <<edge, edge>>
       ELSE /\ http = <<>>
            /\ last.out = HostPath(client, source, last.args.host,
                                   last.args.x, last.args.y, last.args.z)
            /\ last.out = GetImage(client, [source EXCEPT !.supersample = 0],
                                   last.args.sv, last.args.host,
                                   last.args.x, last.args.y, last.args.z).out

\* C23 witness: supersample 2 one level below max_zoom is cut to 1; four
\* sub-tiles at max_zoom are requested and a tile-sized image is returned.
C23_Witness ==
  /\ last.op = "get_image" /\ source.supersample = 2
  /\ last.args.z = MaxZoomOf(client) - 1
  /\ last.args.x = 1 /\ last.args.y = 2
  /\ Len(http) = 4
  /\ http[4].z = MaxZoomOf(client) /\ http[4].x = 3 /\ http[4].y = 5
  /\ last.out.status = "return"
  /\ last.out.value.img.size = <<client.tile_size, client.tile_size>>

\* C23 witness of the pass-through: at max_zoom nothing is left of the
\* supersample and the host renderer's tile is returned.
C23_WitnessPassThrough ==
  /\ last.op = "get_image" /\ source.supersample = 2
  /\ last.args.z = MaxZoomOf(client)
  /\ http = <<>>
  /\ last.out.status = "return"
  /\ last.out.value.extent.by = "host"

\* The filter a caller of the model selects by a method name: the four names
\* in any case; another name selects none and is answered with the default.
SelectedFilter(method) ==
  CASE method = "lanczos" -> "lanczos"
    [] method = "bicubic" -> "bicubic"
    [] method = "BILINEAR" -> "bilinear"
    [] method = "Nearest" -> "nearest"
    [] OTHER -> "lanczos"

\* C24: in fetch_tiles_for_extent the supersample downsample uses the Lanczos
\* filter whatever resample_method was passed; in smoothing mode the composite
\* is upsampled to int(1.02 * width) x int(1.02 * height) with the bicubic
\* filter and downsampled to width x height with the caller-selected filter,
\* so the smoothed image has the composite's dimensions.
C24_ResampleFilters ==
  ExtentFetched =>
    LET img == last.out.value
        composite == Unresized(img)
    IN /\ EffectiveOfCall > 0 =>
            /\ img.base.k = "resize"
            /\ img.base.filter = "lanczos"
            /\ img.base.src = composite
       /\ (EffectiveOfCall = 0 /\ last.args.resample) =>
            /\ img.size = composite.size
            /\ img.base.k = "resize"
            /\ img.base.filter = SelectedFilter(last.args.resample_method)
            /\ img.base.src.base.k = "resize"
            /\ img.base.src.base.filter = "bicubic"
            /\ img.base.src.size = <<(composite.size[1] * 102) \div 100,
                                     (composite.size[2] * 102) \div 100>>
            /\ img.base.src.base.src = composite

\* C24 witness: a supersampled fetch asked for with the method Nearest is
\* downsampled with Lanczos.
C24_Witness ==
  /\ ExtentFetched /\ EffectiveOfCall = 1
  /\ last.args.resample /\ last.args.resample_method = "Nearest"
  /\ last.out.value.base.k = "resize"
  /\ last.out.value.base.filter = "lanczos"
  /\ last.out.value.size[1] < Unresized(last.out.value).size[1]

\* C24 witness of the smoothing mode: a 512 x 512 composite is upsampled to
\* 522 x 522 with bicubic and brought back to 512 x 512 with nearest.
C24_WitnessSmoothing ==
  /\ ExtentFetched /\ EffectiveOfCall = 0
  /\ last.args.resample /\ last.args.resample_method = "Nearest"
  /\ last.out.value.size = <<512, 512>>
  /\ last.out.value.base.filter = "nearest"
  /\ last.out.value.base.src.size = <<522, 522>>
  /\ last.out.value.base.src.base.filter = "bicubic"

\* The validation of the requested zoom with the supersample the last
\* validation returned.
ValidatedAgain ==
  ValidateZoomLevel(client, last.args.zoom_level, last.out.value[2])

\* C25: the validator is idempotent on its own output: when (z, s), s >= 0,
\* validates to (fetch zoom, s'), validating (z, s') returns the same
\* (fetch zoom, s') and emits no downgrade notice.
C25_ValidatorIdempotent ==
  (Validated /\ last.args.supersample >= 0 /\ last.out.status = "return") =>
    /\ ValidatedAgain.out = Return(last.out.value)
    /\ ValidatedAgain.warns = <<>>

\* C25 witness: a validation that cut the supersample and announced it; its
\* result, at the ceiling, validates to itself.
C25_Witness ==
  /\ Validated /\ last.out.status = "return"
  /\ last.args.supersample > last.out.value[2]
  /\ last.out.value[2] > 0
  /\ last.out.value[1] = MaxZoomOf(client)
  /\ Len(warns) = 1
  /\ ValidatedAgain.out.value = last.out.value

\* The tile range of the extent at zoom + s lies inside the range at zoom
\* scaled by 2^s, and has at least one and at most 2^s times as many columns
\* and rows.
InsideScaledBase(extent, zoom, s) ==
  LET b == ExtentToTileIndices(extent, zoom).value
      f == ExtentToTileIndices(extent, zoom + s).value
      k == Pow2(s)
  IN /\ b[1] * k <= f[1] /\ f[3] <= (b[3] + 1) * k - 1
     /\ b[2] * k <= f[2] /\ f[4] <= (b[4] + 1) * k - 1
     /\ 1 <= f[3] - f[1] + 1 /\ f[3] - f[1] + 1 <= k * (b[3] - b[1] + 1)
     /\ 1 <= f[4] - f[2] + 1 /\ f[4] - f[2] + 1 <= k * (b[4] - b[2] + 1)

\* The last call was extent_to_tile_indices for an ordered extent at a zoom
\* >= 0, and it returned.
OrderedExtentRanged ==
  /\ last.op = "extent_to_tile_indices"
  /\ last.args.zoom >= 0
  /\ last.args.extent[1] < last.args.extent[2]
  /\ last.args.extent[3] < last.args.extent[4]
  /\ last.out.status = "return"

\* C26: for any extent, base zoom z and effective supersample s, the tile range
\* at fetch zoom z + s lies inside the base-zoom range scaled by 2^s:
\* xMin(z) * 2^s <= xMin(z + s), xMax(z + s) <= (xMax(z) + 1) * 2^s - 1, likewise
\* for y; so the sub-tile columns (rows) number at least 1 and at most 2^s
\* times the base columns (rows).
C26_FetchRangeInsideScaledBase ==
  OrderedExtentRanged =>
    \A s \in 0..MaxExtentSupersample :
      InsideScaledBase(last.args.extent, last.args.zoom, s)

\* The corners of the extent lie in the square the projection maps onto the
\* tile grid: -180 <= lon < 180 and the latitude fraction in [0, 1).
WithinMercatorSquare(extent) ==
  /\ \A i \in {1, 2} : LonFraction[extent[i]].v >= 0 /\ LonFraction[extent[i]].v < Pow2(FracBits)
  /\ \A i \in {3, 4} : /\ MercatorFraction[extent[i]].ok
                       /\ MercatorFraction[extent[i]].v >= 0

\* C26, what holds: the containment for the extents whose corners are not
\* west of -180 degrees and not north of the projection's square.
C26_FetchRangeInsideScaledBaseInSquare ==
  (OrderedExtentRanged /\ WithinMercatorSquare(last.args.extent)) =>
    \A s \in 0..MaxExtentSupersample :
      InsideScaledBase(last.args.extent, last.args.zoom, s)

\* The URL is the provider template formatted at a tile of zoom fetchZ >= z
\* that lies inside tile (x, y, z): 0 <= fetchX, fetchY < 2^fetchZ and
\* (fetchX, fetchY) is one of the 2^(fetchZ - z) x 2^(fetchZ - z) descendants.
NamesTileInside(url, x, y, z) ==
  \E fetchZ \in z..(z + MaxAdapterSupersample) :
    LET scale == Pow2(fetchZ - z)
    IN \E fetchX \in (x * scale)..((x + 1) * scale - 1),
          fetchY \in (y * scale)..((y + 1) * scale - 1) :
         /\ 0 <= fetchX /\ fetchX < Pow2(fetchZ)
         /\ 0 <= fetchY /\ fetchY < Pow2(fetchZ)
         /\ url = TemplateAt(client, fetchZ, fetchX, fetchY)

\* The last call was _image_url of a source with supersample > 0, for a tile
\* with 0 <= x, y < 2^z.
SupersampledUrlAsked ==
  /\ last.op = "_image_url"
  /\ source.supersample > 0
  /\ 0 <= last.args.x /\ last.args.x < Pow2(last.args.z)
  /\ 0 <= last.args.y /\ last.args.y < Pow2(last.args.z)

\* C27: for a lazy adapter with supersample > 0 and any tile (x, y, z) with
\* 0 <= x, y < 2^z, z above max_zoom included, the URL of _image_url names a
\* zoom fetchZ >= z and coordinates 0 <= fetchX, fetchY < 2^fetchZ: a tile
\* inside the requested tile.
C27_UrlInsideRequestedTile ==
  SupersampledUrlAsked =>
    NamesTileInside(last.out.value, last.args.x, last.args.y, last.args.z)

\* C27, what holds: the claim for the tiles with z <= max_zoom; for a tile
\* above max_zoom the URL names zoom max_zoom < z.
C27_UrlInsideUpToMaxZoom ==
  SupersampledUrlAsked =>
    IF last.args.z <= MaxZoomOf(client)
    THEN NamesTileInside(last.out.value, last.args.x, last.args.y, last.args.z)
    ELSE /\ last.out.value =
              TemplateAt(client, MaxZoomOf(client), last.args.x, last.args.y)
         /\ MaxZoomOf(client) < last.args.z

\* The last call was get_image of a source with supersample > 0 for a tile
\* with z <= max_zoom.
SupersampledTileAsked ==
  /\ last.op = "get_image"
  /\ source.supersample > 0
  /\ last.args.z <= MaxZoomOf(client)

\* C28: for supersample > 0 and every tile (x, y, z) with z <= max_zoom, the
\* zoom and coordinates at which _image_url formats its URL equal the fetch
\* zoom and the top-left (dx = 0, dy = 0) sub-tile of the grid get_image fetches
\* for the same tile; where the effective supersample is 0 get_image fetches
\* nothing itself and the host asks for the tile (x, y, z).
C28_EntryPointsAgree ==
  SupersampledTileAsked =>
    LET x == last.args.x
        y == last.args.y
        z == last.args.z
        url == ImageUrl(source, x, y, z)
    IN IF AdapterEffective > 0
       THEN /\ http # <<>>
            /\ http[1].z = z + AdapterEffective
            /\ http[1].x = x * Pow2(AdapterEffective)
            /\ http[1].y = y * Pow2(AdapterEffective)
            /\ url = TemplateAt(client, http[1].z, http[1].x, http[1].y)
            /\ url = http[1].url
       ELSE /\ http = <<>>
            /\ url = TemplateAt(client, z, x, y)

\* get_image fetched a grid at a zoom lowered to max_zoom: supersample 2 for a
\* tile one level below max_zoom.
C28_Witness ==
  /\ SupersampledTileAsked
  /\ source.supersample = 2
  /\ last.args.z = MaxZoomOf(client) - 1
  /\ Len(http) = 4
  /\ http[1].z = MaxZoomOf(client)
  /\ http[1].x = 2 * last.args.x

\* The last call was suggest_optimal_zoom and it returned a zoom.
ZoomSuggested == last.op = "suggest_optimal_zoom" /\ last.out.status = "return"

\* C29: for every provider, extent, dpi, output size and quality preference,
\* the zoom suggest_optimal_zoom returns lies in [min_zoom, max_zoom] of the
\* provider, so _validate_zoom_level accepts it with supersample 0 and raises
\* no zoom-out-of-range error.
C29_SuggestedZoomValidates ==
  ZoomSuggested =>
    /\ MinZoomOf(client) <= last.out.value
    /\ last.out.value <= MaxZoomOf(client)
    /\ ValidateZoomLevel(client, last.out.value, 0).out = Return(<<last.out.value, 0>>)
    /\ ValidateZoomLevel(client, last.out.value, 0).warns = <<>>

\* The clamp acted from above: the adjusted zoom of a 0.0001 degree extent on
\* 1200 pixels is above max_zoom, and max_zoom is returned.
C29_Witness ==
  /\ ZoomSuggested
  /\ last.args.extent = <<0, 1, 0, 1>>
  /\ last.args.output_size = <<1200, 1200>>
  /\ SuggestOptimalZoomUnclamped(client, last.args.extent, last.args.output_dpi,
                                 last.args.output_size, last.args.quality_preference,
                                 last.args.meters_per_degree).value > MaxZoomOf(client)
  /\ last.out.value = MaxZoomOf(client)

\* The clamp acted from below: the adjusted zoom of the world on 16 pixels is
\* negative, and min_zoom is returned.
C29_WitnessBelow ==
  /\ ZoomSuggested
  /\ last.args.quality_preference = "fast"
  /\ SuggestOptimalZoomUnclamped(client, last.args.extent, last.args.output_dpi,
                                 last.args.output_size, last.args.quality_preference,
                                 last.args.meters_per_degree).value < 0
  /\ last.out.value = MinZoomOf(client)

\* The test's call: Esri.Terrain, 4 x 2 degrees on 1200 x 1200 pixels at 150 dpi.
C29_TestCase ==
  (/\ ZoomSuggested
   /\ client.provider = "Esri.Terrain"
   /\ last.args.extent = <<1150000, 1190000, 360000, 380000>>
   /\ last.args.output_dpi = 150
   /\ last.args.output_size = <<1200, 1200>>
   /\ last.args.meters_per_degree = 88000) =>
    last.out.value = CASE last.args.quality_preference = "fast" -> 7
                       [] last.args.quality_preference \in {"quality", "Quality"} -> 10
                       [] OTHER -> 8

\* The last call was fetch_tiles_for_extent with supersample 0, and the tile
\* range of its extent at the fetch zoom is empty.
EmptyRangeAsked ==
  /\ FetchLoopsEntered
  /\ last.args.supersample = 0
  /\ (FetchRange[1] > FetchRange[3] \/ FetchRange[2] > FetchRange[4])

\* C30: for an extent whose tile range at the fetch zoom is empty (xMin > xMax
\* or yMin > yMax) and supersample 0, fetch_tiles_for_extent requests no tile
\* and returns, instead of raising, a blank fully transparent image of exactly
\* tile_size x tile_size (with resample on, that blank image after the two
\* smoothing resizes, at the same size).
C30_EmptyRangeGivesBlankTile ==
  EmptyRangeAsked =>
    LET blank == ImageNew("RGBA", <<client.tile_size, client.tile_size>>, Transparent)
    IN /\ http = <<>>
       /\ last.out.status = "return"
       /\ last.out.value.mode = "RGBA"
       /\ last.out.value.size = <<client.tile_size, client.tile_size>>
       /\ Unresized(last.out.value) = blank
       /\ \A x \in {0, client.tile_size - 1} : PixelAt(blank, x, x) = Transparent
       /\ ~last.args.resample => last.out.value = blank

\* East and west swapped: the rows of the range exist and each is empty.
C30_Witness ==
  /\ EmptyRangeAsked
  /\ last.args.extent = InvertedLongitudes
  /\ FetchRange[1] > FetchRange[3]
  /\ FetchRange[2] < FetchRange[4]
  /\ last.out.status = "return"
  /\ ~last.args.resample

\* North and south swapped: the range has no row.
C30_WitnessNoRow ==
  /\ EmptyRangeAsked
  /\ last.args.extent = InvertedLatitudes
  /\ FetchRange[2] > FetchRange[4]
  /\ FetchRange[1] < FetchRange[3]
  /\ last.out.status = "return"
  /\ last.args.resample

====
